---- MODULE Spec2Model ----
(***************************************************************************)
(* Trend-monitor scoring engine of notion-intel-scanner                    *)
(* (src/trend-monitor.js, with the sentiment module it requires).          *)
(*                                                                         *)
(* JavaScript numbers are IEEE-754 doubles.  Scores are integers; the real *)
(* valued intermediate quantities are kept as exact fractions <<n, d>>,    *)
(* and Math.round is round-half-up on the exact value, corrected by a      *)
(* table where the double evaluation of the rounded expression falls on    *)
(* the other side of a tie.                                                *)
(***************************************************************************)
EXTENDS Integers, Sequences, FiniteSets, TLC

VARIABLES
    scoreHistory,   \* the in-memory Map of monitorId to last smoothed score
    histLog,        \* the get and set calls the last operation made on it
    pc,             \* where the process, or the driven function, stands
    ret,            \* what the last operation was given and what it produced
    pages,          \* the monitors database of the Notion workspace
    signals,        \* the signals database: the alert pages, oldest first
    env,            \* DRY_RUN and whether SIGNALS_DATABASE_ID is set
    today,          \* the current UTC day, counted from the first run
    run,            \* the locals of main(): monitors, the loop, the counters
    budget,         \* runs started and faults injected so far
    lastPass        \* per monitor, the smoothed score of its latest pass

world == <<pages, signals, env, today, run, budget, lastPass>>

vars == <<scoreHistory, histLog, pc, ret, pages, signals, env, today, run, budget, lastPass>>

(***************************************************************************)
(* Values                                                                  *)
(***************************************************************************)
\* An optional number: None is undefined, null or NaN; Some(v) is a value.
None == <<>>
Some(v) == <<v>>
Val(o) == o[1]

\* A source argument that is null.
Null == [kind |-> "null"]

\* The workspace and the run when a function is driven on its own.
NoWorld ==
    /\ pages = <<>>
    /\ signals = <<>>
    /\ env = [DRY_RUN |-> FALSE, SIGNALS_DB |-> FALSE]
    /\ today = 0
    /\ run = <<>>
    /\ budget = [runs |-> 0, faults |-> 0]
    /\ lastPass = <<>>

Min(a, b) == IF a <= b THEN a ELSE b
Max(a, b) == IF a >= b THEN a ELSE b
Abs(n) == IF n < 0 THEN -n ELSE n

RECURSIVE SeqSum(_)
SeqSum(s) == IF s = <<>> THEN 0 ELSE Head(s) + SeqSum(Tail(s))

RECURSIVE Flatten(_)
Flatten(ss) == IF ss = <<>> THEN <<>> ELSE Head(ss) \o Flatten(Tail(ss))

(***************************************************************************)
(* Exact fractions <<numerator, denominator>>, denominator > 0             *)
(***************************************************************************)
RECURSIVE GCD(_, _)
GCD(a, b) == IF b = 0 THEN a ELSE GCD(b, a % b)

Frac(n, d) == LET g == GCD(Abs(n), d) IN <<n \div g, d \div g>>
F(n) == <<n, 1>>

\* Sum, product and quotient in lowest terms; common factors are cancelled
\* before multiplying, which keeps the intermediate integers small.
FAdd(x, y) ==
    LET g == GCD(x[2], y[2])
    IN  Frac(x[1] * (y[2] \div g) + y[1] * (x[2] \div g), (x[2] \div g) * y[2])
FMul(x, y) ==
    LET g1 == GCD(Abs(x[1]), y[2])
        g2 == GCD(Abs(y[1]), x[2])
    IN  <<(x[1] \div g1) * (y[1] \div g2), (x[2] \div g2) * (y[2] \div g1)>>
FDiv(x, y) == FMul(x, <<y[2], y[1]>>)

\* x <= y, by comparing the continued-fraction expansions.
RECURSIVE FLe(_, _)
FLe(x, y) ==
    LET qx == x[1] \div x[2]
        qy == y[1] \div y[2]
        rx == x[1] % x[2]
        ry == y[1] % y[2]
    IN  IF qx # qy THEN qx < qy
        ELSE IF rx = 0 THEN TRUE
        ELSE IF ry = 0 THEN FALSE
        ELSE FLe(<<y[2], ry>>, <<x[2], rx>>)
FMin(x, y) == IF FLe(x, y) THEN x ELSE y
FMax(x, y) == IF FLe(x, y) THEN y ELSE x

RECURSIVE FSum(_)
FSum(s) == IF s = <<>> THEN F(0) ELSE FAdd(Head(s), FSum(Tail(s)))

\* Math.round: the nearest integer, a tie going up.
Round(x) ==
    LET q == x[1] \div x[2]
        r == x[1] % x[2]
    IN  IF r >= x[2] - r THEN q + 1 ELSE q

\* Fault variant: no clamping.
Unclamped(n) == n

\* Math.min(100, Math.max(0, n)) on an integer score.
Clamp0to100(n) == Min(100, Max(0, n))

\* Math.min(100, Math.max(0, x)) on a real.
FClamp0to100(x) == FMin(F(100), FMax(F(0), x))

(***************************************************************************)
(* Configuration (src/trend-monitor.js:54-75)                              *)
(***************************************************************************)
\* SOURCE_WEIGHTS, reliability and weight in hundredths.
SOURCE_WEIGHTS ==
    [googleTrends  |-> [reliability |-> 85, weight |-> 14],
     googleNewsRss |-> [reliability |-> 80, weight |-> 14],
     newsData      |-> [reliability |-> 80, weight |-> 14],
     serpApi       |-> [reliability |-> 90, weight |-> 14],
     hackerNews    |-> [reliability |-> 85, weight |-> 14],
     reddit        |-> [reliability |-> 70, weight |-> 10],
     additionalRss |-> [reliability |-> 80, weight |-> 20]]

GOOGLE_TRENDS_REGIONS == {"US", "GB", "CA", "AU"}

\* EMA_ALPHA = 0.3, in tenths.
EMA_ALPHA == 3

(***************************************************************************)
(* Sentiment (src/unnamed/part_006:186-319)                                *)
(***************************************************************************)
\* The entries of AFINN_WORDS that the modelled titles use.
AFINN_WORDS ==
    [superb |-> 5, amazing |-> 4, wonderful |-> 4, good |-> 3, growth |-> 2,
     bad |-> -3, crisis |-> -3, terrible |-> -4, awful |-> -4, disaster |-> -4,
     terror |-> -5]

\* Variant of calculateSentiment: a text without words scores 0.
calculateSentimentNoWordsZero(words) ==
    IF Len(words) = 0 THEN 0
    ELSE LET matched == SelectSeq(words, LAMBDA w : w \in DOMAIN AFINN_WORDS)
             totalScore == SeqSum([i \in 1..Len(matched) |-> AFINN_WORDS[matched[i]]])
             normalizedScore == FAdd(F(50), FMul(Frac(totalScore, Len(words)), F(10)))
         IN  IF Len(matched) = 0 THEN 50
             ELSE Min(100, Max(0, Round(normalizedScore)))

\* calculateSentiment(text); text is given as its sequence of tokens, the
\* empty sequence standing for an empty or missing text.
calculateSentiment(words) ==
    IF Len(words) = 0 THEN 50
    ELSE LET matched == SelectSeq(words, LAMBDA w : w \in DOMAIN AFINN_WORDS)
             totalScore == SeqSum([i \in 1..Len(matched) |-> AFINN_WORDS[matched[i]]])
             normalizedScore == FAdd(F(50), FMul(Frac(totalScore, Len(words)), F(10)))
         IN  IF Len(matched) = 0 THEN 50
             ELSE Min(100, Max(0, Round(normalizedScore)))

\* calculateArticleSentiment(articles)
calculateArticleSentiment(articles) ==
    LET titled == SelectSeq(articles, LAMBDA a : Len(a.title) > 0)
        totalScore == SeqSum([i \in 1..Len(titled) |-> calculateSentiment(titled[i].title)])
        analyzedCount == Len(titled)
        averageScore == Round(Frac(totalScore, analyzedCount))
    IN  IF analyzedCount = 0
        THEN [score |-> 50, classification |-> "Neutral", articlesAnalyzed |-> 0]
        ELSE [score |-> averageScore,
              classification |->
                  IF averageScore <= 30 THEN "Negative"
                  ELSE IF averageScore <= 45 THEN "Somewhat Negative"
                  ELSE IF averageScore <= 55 THEN "Neutral"
                  ELSE IF averageScore <= 70 THEN "Somewhat Positive"
                  ELSE "Positive",
              articlesAnalyzed |-> analyzedCount]

(***************************************************************************)
(* Source results, as the fetchers return them                              *)
(* (src/trend-monitor.js:1071-1467)                                        *)
(***************************************************************************)
\* A recency weight is Some(w), w in hundredths, or None when it is NaN.
\* x || 0 and x || 0.5 on such a number:
OrZero(w) == IF w = None THEN 0 ELSE Val(w)
OrHalf(w) == IF w = None \/ Val(w) = 0 THEN 50 ELSE Val(w)

\* The object fetchGoogleTrendsRSS returns: allTrends is the number of
\* trending topics, matchingTrends the recency weights of the matching ones,
\* regionData the number of matches in each region.
GoogleTrendsResult(allTrends, matchingTrends, regionData) ==
    [kind |-> "trends", allTrends |-> allTrends, matchingTrends |-> matchingTrends,
     hasMatches |-> Len(matchingTrends) > 0, regionData |-> regionData]

\* One entry of the array a per-term fetcher returns.
TermResult(totalResults, weightedCount, articles) ==
    [totalResults |-> totalResults, weightedCount |-> weightedCount, articles |-> articles]

\* The array a per-term fetcher returns.
List(results) == [kind |-> "list", results |-> results]

\* The object fetchAdditionalNewsRSS returns.
AdditionalRss(articles) ==
    [kind |-> "rss", totalMatches |-> Len(articles), allMatchingArticles |-> articles]

\* list && list.length > 0
NonEmpty(list) == list # Null /\ Len(list.results) > 0

\* list.reduce((sum, r) => sum + r.totalResults, 0)
TotalResults(list) == SeqSum([i \in 1..Len(list.results) |-> list.results[i].totalResults])

\* list.reduce((sum, r) => sum + (r.weightedCount || 0), 0), in hundredths
TotalWeighted(list) == SeqSum([i \in 1..Len(list.results) |-> OrZero(list.results[i].weightedCount)])

\* list.some(r => r.totalResults > 0)
SomeResults(list) == \E i \in 1..Len(list.results) : list.results[i].totalResults > 0

\* list.filter(r => r.totalResults > 0).length / list.length
TermCoverage(list) ==
    Frac(Cardinality({i \in 1..Len(list.results) : list.results[i].totalResults > 0}),
         Len(list.results))

\* Object.values(regionData).filter(r => r.matches > 0).length
RegionsWithMatches(googleTrends) ==
    Cardinality({g \in DOMAIN googleTrends.regionData : googleTrends.regionData[g] > 0})

(***************************************************************************)
(* Coherence (src/trend-monitor.js:1479-1631)                              *)
(***************************************************************************)
ListSignal(name, list) ==
    IF NonEmpty(list)
    THEN << [source |-> name, hasSignal |-> TotalResults(list) > 0,
             magnitude |-> TotalResults(list), termCoverage |-> Some(TermCoverage(list))] >>
    ELSE <<>>

SourceSignals(in) ==
    (IF in.googleTrends # Null
     THEN << [source |-> "googleTrends", hasSignal |-> in.googleTrends.hasMatches,
              magnitude |-> Len(in.googleTrends.matchingTrends), termCoverage |-> None] >>
     ELSE <<>>)
    \o ListSignal("googleNewsRss", in.googleNewsRss)
    \o ListSignal("newsData", in.newsData)
    \o ListSignal("serpApi", in.serpResults)
    \o ListSignal("reddit", in.reddit)
    \o ListSignal("hackerNews", in.hackerNews)
    \o (IF in.additionalRss # Null /\ in.additionalRss.totalMatches > 0
        THEN << [source |-> "additionalRss", hasSignal |-> TRUE,
                 magnitude |-> in.additionalRss.totalMatches, termCoverage |-> Some(F(1))] >>
        ELSE <<>>)

CoherenceLevel(coherenceScore) ==
    IF coherenceScore >= 75 THEN "High"
    ELSE IF coherenceScore >= 50 THEN "Medium"
    ELSE IF coherenceScore >= 25 THEN "Low"
    ELSE "Noise"

\* directionAgreement = (sourcesWithSignal / sourceSignals.length) * 100
DirectionAgreement(sourceSignals) ==
    Frac(100 * Cardinality({i \in 1..Len(sourceSignals) : sourceSignals[i].hasSignal}),
         Len(sourceSignals))

\* Math.max(...magnitudes) and Math.min(...magnitudes)
MaxMagnitude(sourceSignals) ==
    CHOOSE x \in {sourceSignals[i].magnitude : i \in 1..Len(sourceSignals)} :
        \A i \in 1..Len(sourceSignals) : sourceSignals[i].magnitude <= x

MinMagnitude(sourceSignals) ==
    CHOOSE x \in {sourceSignals[i].magnitude : i \in 1..Len(sourceSignals)} :
        \A i \in 1..Len(sourceSignals) : sourceSignals[i].magnitude >= x

\* magnitudeConsistency: 50 unless two sources or more are present
MagnitudeConsistency(sourceSignals) ==
    IF Len(sourceSignals) >= 2
    THEN (IF MaxMagnitude(sourceSignals) > 0
          THEN Frac(100 * MinMagnitude(sourceSignals), MaxMagnitude(sourceSignals))
          ELSE F(0))
    ELSE F(50)

\* temporalConsistency: the mean recency weight of the matching trends
MeanRecency(trends) == Frac(SeqSum([i \in 1..Len(trends) |-> OrHalf(trends[i])]), Len(trends))

TemporalConsistency(in) ==
    IF in.googleTrends # Null /\ Len(in.googleTrends.matchingTrends) > 0
    THEN MeanRecency(in.googleTrends.matchingTrends)
    ELSE F(50)

\* termCorrelation: the mean term coverage of the sources that report one
MeanCoverage(covered) ==
    FMul(FDiv(FSum([i \in 1..Len(covered) |-> Val(covered[i].termCoverage)]),
              F(Len(covered))), F(100))

TermCorrelation(in, covered) ==
    IF Len(covered) > 0
    THEN MeanCoverage(covered)
    ELSE IF in.googleTrends # Null
    THEN Frac(100 * RegionsWithMatches(in.googleTrends), Cardinality(GOOGLE_TRENDS_REGIONS))
    ELSE F(50)

\* The object returned for the weighted coherenceScore and its four factors.
CoherenceResult(coherenceScore, directionAgreement, magnitudeConsistency, temporalConsistency, termCorrelation) ==
    [coherenceScore |-> Clamp0to100(coherenceScore),
     coherenceLevel |-> CoherenceLevel(coherenceScore),
     factors |-> Some([directionAgreement |-> Round(directionAgreement),
                       magnitudeConsistency |-> Round(magnitudeConsistency),
                       temporalConsistency |-> Round(temporalConsistency),
                       termCorrelation |-> Round(termCorrelation)])]

\* The weighted score of the four factors.
CoherenceOfFactors(directionAgreement, magnitudeConsistency, temporalConsistency, termCorrelation) ==
    CoherenceResult(Round(FSum(<< FMul(Frac(30, 100), directionAgreement),
                                  FMul(Frac(25, 100), magnitudeConsistency),
                                  FMul(Frac(25, 100), temporalConsistency),
                                  FMul(Frac(20, 100), termCorrelation) >>)),
                    directionAgreement, magnitudeConsistency, temporalConsistency,
                    termCorrelation)

\* The body of calculateCoherenceScore once sourceSignals is built; factors is
\* None for the empty object.
CoherenceOfSignals(in, sourceSignals) ==
    IF Len(sourceSignals) = 0
    THEN [coherenceScore |-> 0, coherenceLevel |-> "Noise", factors |-> None]
    ELSE CoherenceOfFactors(
             DirectionAgreement(sourceSignals),
             MagnitudeConsistency(sourceSignals),
             TemporalConsistency(in),
             TermCorrelation(in, SelectSeq(sourceSignals, LAMBDA s : s.termCoverage # None)))

\* calculateCoherenceScore(googleTrends, ..., additionalRss)
calculateCoherenceScore(in) == CoherenceOfSignals(in, SourceSignals(in))

(***************************************************************************)
(* Confidence (src/trend-monitor.js:1643-1723)                             *)
(***************************************************************************)
\* The sources that count as a data point, in the order the code adds them.
ContributingSources(in) ==
    (IF in.googleTrends # Null /\ in.googleTrends.allTrends > 0 THEN <<"googleTrends">> ELSE <<>>)
    \o (IF NonEmpty(in.googleNewsRss) /\ SomeResults(in.googleNewsRss) THEN <<"googleNewsRss">> ELSE <<>>)
    \o (IF NonEmpty(in.newsData) /\ SomeResults(in.newsData) THEN <<"newsData">> ELSE <<>>)
    \o (IF NonEmpty(in.serpResults) /\ SomeResults(in.serpResults) THEN <<"serpApi">> ELSE <<>>)
    \o (IF NonEmpty(in.reddit) /\ SomeResults(in.reddit) THEN <<"reddit">> ELSE <<>>)
    \o (IF NonEmpty(in.hackerNews) /\ SomeResults(in.hackerNews) THEN <<"hackerNews">> ELSE <<>>)
    \o (IF in.additionalRss # Null /\ in.additionalRss.totalMatches > 0 THEN <<"additionalRss">> ELSE <<>>)

\* const maxDataPoints = 7
maxDataPoints == 7

\* Fault variant: the upper limit only.
ClampConfidenceAbove(confidence) == FMin(Frac(98, 100), confidence)

\* Math.min(0.98, Math.max(0.10, confidence))
ClampConfidence(confidence) == FMin(Frac(98, 100), FMax(Frac(10, 100), confidence))

\* calculateConfidenceV2(googleTrends, ..., additionalRss, coherenceScore)
calculateConfidenceV2(in, coherenceScore) ==
    LET sources == ContributingSources(in)
        dataPoints == Len(sources)
        baseConfidence ==
            FSum([i \in 1..dataPoints |->
                     Frac(SOURCE_WEIGHTS[sources[i]].reliability * SOURCE_WEIGHTS[sources[i]].weight,
                          10000)])
        freshnessMultiplier == FAdd(Frac(4, 10), FMul(Frac(6, 10), Frac(dataPoints, maxDataPoints)))
        sampleSizeMultiplier ==
            FAdd(Frac(3, 10), FMul(Frac(7, 10), FMin(F(1), Frac(dataPoints, maxDataPoints))))
        agreementMultiplier == FAdd(Frac(75, 100), FMul(Frac(40, 100), Frac(coherenceScore, 100)))
        confidence ==
            FMul(FMul(FMul(baseConfidence, freshnessMultiplier), sampleSizeMultiplier),
                 agreementMultiplier)
    IN  [confidence |-> Round(FMul(ClampConfidence(confidence), F(100))),
         dataPoints |-> dataPoints,
         factors |-> [freshnessMultiplier |-> Round(FMul(freshnessMultiplier, F(100))),
                      sampleSizeMultiplier |-> Round(FMul(sampleSizeMultiplier, F(100))),
                      agreementMultiplier |-> Round(FMul(agreementMultiplier, F(100)))]]

(***************************************************************************)
(* Score history (src/trend-monitor.js:68-138)                             *)
(***************************************************************************)
\* The monitor identifiers used as keys of the history map.
MonitorIds == {"m1", "m12"}


\* const scoreHistory = new Map(); a store is the map together with the log
\* of the get and set calls made on it.
EmptyHistory == [m \in MonitorIds |-> None]

MapGet(store, key) ==
    [store |-> [store EXCEPT !.log = Append(@, [op |-> "get", key |-> key])],
     value |-> store.map[key]]

MapSet(store, key, value) ==
    [map |-> [store.map EXCEPT ![key] = Some(value)],
     log |-> Append(store.log, [op |-> "set", key |-> key])]

\* The pairs <<newScore, previousScore>> of integers in 0..100 for which
\* 0.3 * newScore + 0.7 * previousScore is exactly k + 0.5 but its double
\* evaluation EMA_ALPHA * newScore + (1 - EMA_ALPHA) * previousScore is
\* just below k + 0.5, so that Math.round returns k and not k + 1.
EMATieRoundsDown ==
    { <<0, 45>>, <<0, 85>>, <<1, 6>>, <<1, 46>>, <<1, 56>>, <<1, 66>>, <<1, 76>>, <<1, 86>>,
      <<1, 96>>, <<2, 7>>, <<2, 17>>, <<2, 97>>, <<3, 28>>, <<3, 38>>, <<3, 48>>, <<3, 58>>,
      <<3, 68>>, <<3, 78>>, <<3, 88>>, <<4, 19>>, <<4, 29>>, <<4, 39>>, <<6, 51>>, <<6, 61>>,
      <<6, 71>>, <<6, 81>>, <<7, 12>>, <<7, 92>>, <<8, 23>>, <<8, 33>>, <<8, 53>>, <<8, 63>>,
      <<8, 73>>, <<8, 83>>, <<9, 14>>, <<9, 24>>, <<9, 34>>, <<10, 85>>, <<11, 6>>, <<11, 46>>,
      <<11, 56>>, <<11, 66>>, <<11, 76>>, <<11, 86>>, <<11, 96>>, <<12, 17>>, <<12, 97>>, <<13, 28>>,
      <<13, 38>>, <<13, 48>>, <<13, 58>>, <<13, 68>>, <<13, 78>>, <<14, 29>>, <<14, 39>>, <<16, 51>>,
      <<16, 61>>, <<16, 71>>, <<16, 81>>, <<17, 12>>, <<17, 92>>, <<18, 3>>, <<18, 23>>, <<18, 33>>,
      <<18, 53>>, <<18, 63>>, <<18, 73>>, <<18, 83>>, <<19, 24>>, <<19, 34>>, <<21, 46>>, <<21, 56>>,
      <<21, 66>>, <<21, 76>>, <<21, 96>>, <<22, 97>>, <<23, 28>>, <<23, 48>>, <<23, 58>>, <<23, 68>>,
      <<23, 78>>, <<24, 29>>, <<26, 51>>, <<26, 61>>, <<26, 71>>, <<27, 92>>, <<28, 53>>, <<28, 63>>,
      <<28, 73>>, <<29, 24>>, <<31, 6>>, <<31, 46>>, <<31, 56>>, <<31, 66>>, <<31, 76>>, <<31, 96>>,
      <<32, 97>>, <<33, 48>>, <<33, 58>>, <<33, 68>>, <<34, 29>>, <<36, 1>>, <<36, 51>>, <<36, 61>>,
      <<36, 71>>, <<37, 92>>, <<38, 53>>, <<38, 63>>, <<38, 73>>, <<39, 24>>, <<41, 46>>, <<41, 56>>,
      <<41, 66>>, <<41, 96>>, <<42, 97>>, <<43, 48>>, <<43, 58>>, <<43, 68>>, <<46, 1>>, <<46, 51>>,
      <<46, 61>>, <<46, 71>>, <<47, 92>>, <<48, 23>>, <<48, 53>>, <<48, 63>>, <<49, 24>>, <<51, 46>>,
      <<51, 56>>, <<51, 66>>, <<51, 96>>, <<52, 97>>, <<53, 48>>, <<53, 58>>, <<53, 68>>, <<57, 2>>,
      <<57, 12>>, <<57, 92>>, <<58, 53>>, <<58, 63>>, <<61, 96>>, <<62, 7>>, <<62, 17>>, <<62, 97>>,
      <<63, 48>>, <<63, 58>>, <<67, 2>>, <<67, 12>>, <<67, 92>>, <<68, 53>>, <<71, 96>>, <<72, 7>>,
      <<72, 97>>, <<73, 48>>, <<73, 58>>, <<77, 2>>, <<77, 12>>, <<77, 92>>, <<78, 53>>, <<81, 96>>,
      <<82, 7>>, <<82, 97>>, <<83, 48>>, <<87, 2>>, <<87, 92>>, <<88, 53>>, <<91, 96>>, <<92, 97>>,
      <<93, 48>>, <<96, 1>>, <<97, 2>>, <<97, 92>> }

\* Fault variant: the weights of the new and the previous score exchanged.
EMARoundSwapped(newScore, previousScore) ==
    Round(Frac((10 - EMA_ALPHA) * newScore + EMA_ALPHA * previousScore, 10))

\* Fault variant: Math.floor in place of Math.round.
EMARoundFloor(newScore, previousScore) ==
    (EMA_ALPHA * newScore + (10 - EMA_ALPHA) * previousScore) \div 10

\* Fault variant: Math.ceil in place of Math.round.
EMARoundCeiling(newScore, previousScore) ==
    -((-(EMA_ALPHA * newScore + (10 - EMA_ALPHA) * previousScore)) \div 10)

\* Math.round(EMA_ALPHA * newScore + (1 - EMA_ALPHA) * previousScore)
EMARound(newScore, previousScore) ==
    LET exact == Round(Frac(EMA_ALPHA * newScore + (10 - EMA_ALPHA) * previousScore, 10))
    IN  IF <<newScore, previousScore>> \in EMATieRoundsDown THEN exact - 1 ELSE exact

\* Fault variant: a first observation smoothed against the baseline 50.
applyEMASmoothingNoFirst(store, newScore, monitorId) ==
    LET previousScore == MapGet(store, monitorId)
        smoothedScore == EMARound(newScore, IF previousScore.value = None THEN 50
                                            ELSE Val(previousScore.value))
    IN  [store |-> MapSet(previousScore.store, monitorId, smoothedScore),
         value |-> smoothedScore]

\* Fault variant: the history keeps the raw score, not the smoothed one.
applyEMASmoothingKeepsRaw(store, newScore, monitorId) ==
    LET previousScore == MapGet(store, monitorId)
    IN  IF previousScore.value = None
        THEN [store |-> MapSet(previousScore.store, monitorId, newScore),
              value |-> newScore]
        ELSE [store |-> MapSet(previousScore.store, monitorId, newScore),
              value |-> EMARound(newScore, Val(previousScore.value))]

\* applyEMASmoothing(newScore, monitorId): the store after it and its value.
applyEMASmoothing(store, newScore, monitorId) ==
    LET previousScore == MapGet(store, monitorId)
    IN  IF previousScore.value = None
        THEN [store |-> MapSet(previousScore.store, monitorId, newScore),
              value |-> newScore]
        ELSE LET smoothedScore == EMARound(newScore, Val(previousScore.value))
             IN  [store |-> MapSet(previousScore.store, monitorId, smoothedScore),
                  value |-> smoothedScore]

\* Fault variant: the history is not consulted.
getPreviousScoreUnread(store, monitorId) == [store |-> store, value |-> None]

\* getPreviousScore(monitorId): scoreHistory.get(monitorId) || null
getPreviousScore(store, monitorId) ==
    LET entry == MapGet(store, monitorId)
    IN  [store |-> entry.store,
         value |-> IF entry.value = None \/ Val(entry.value) = 0 THEN None ELSE entry.value]

(***************************************************************************)
(* The smoothing driven on its own: calls of applyEMASmoothing with any    *)
(* raw score, for any monitor, starting from the empty history             *)
(***************************************************************************)
\* Raw scores handed to applyEMASmoothing.
RawScores == {0, 10, 60, 70, 80, 85, 100}

NoCall == [op |-> "none"]

InitEMA ==
    /\ NoWorld
    /\ scoreHistory = EmptyHistory
    /\ histLog = <<>>
    /\ pc = "idle"
    /\ ret = NoCall

CallEMA(m, r) ==
    /\ pc = "idle"
    /\ LET call == applyEMASmoothing([map |-> scoreHistory, log |-> <<>>], r, m)
       IN  /\ scoreHistory' = call.store.map
           /\ histLog' = call.store.log
           /\ ret' = [op |-> "applyEMASmoothing", monitorId |-> m, newScore |-> r,
                      before |-> scoreHistory[m], value |-> call.value]
    /\ pc' = "returned"
    /\ UNCHANGED world

ReturnEMA ==
    /\ pc = "returned"
    /\ pc' = "idle"
    /\ ret' = NoCall
    /\ histLog' = <<>>
    /\ UNCHANGED <<scoreHistory, world>>

NextEMA ==
    \/ \E m \in MonitorIds, r \in RawScores : CallEMA(m, r)
    \/ ReturnEMA

SpecEMA == InitEMA /\ [][NextEMA]_vars

\* C4: when applyEMASmoothing is called for a monitor that has no history
\* entry, it returns the raw score unchanged and the monitor's history entry
\* becomes that raw score.
C4_FirstCallReturnsRaw ==
    (ret.op = "applyEMASmoothing" /\ ret.before = None)
        => /\ ret.value = ret.newScore
           /\ scoreHistory[ret.monitorId] = Some(ret.newScore)

\* A first call with raw score 80 has returned 80 and recorded it.
C4_Witness ==
    /\ ret.op = "applyEMASmoothing"
    /\ ret.before = None
    /\ ret.newScore = 80
    /\ ret.value = 80
    /\ scoreHistory[ret.monitorId] = Some(80)

\* C5: when applyEMASmoothing is called with raw score r for a monitor whose
\* history entry holds p, the value it returns is 0.3 * r + 0.7 * p rounded
\* to the nearest integer (Math.round of the double; where the sum is exactly
\* halfway between two integers the double evaluation decides which of the
\* two), and the history entry becomes exactly the returned value.
C5_SmoothedIsRoundedEMA ==
    (ret.op = "applyEMASmoothing" /\ ret.before # None)
        => /\ ret.value \in Int
           /\ Abs(10 * ret.value - (3 * ret.newScore + 7 * Val(ret.before))) <= 5
           /\ scoreHistory[ret.monitorId] = Some(ret.value)

\* Raw score 60 on a history entry of 80 has returned and stored 74.
C5_Witness ==
    /\ ret.op = "applyEMASmoothing"
    /\ ret.before = Some(80)
    /\ ret.newScore = 60
    /\ ret.value = 74
    /\ scoreHistory[ret.monitorId] = Some(74)

\* A value lies strictly between two others.
StrictlyBetween(v, x, y) == Min(x, y) < v /\ v < Max(x, y)

\* C11 as stated: on a call with a history entry p and a raw score r # p,
\* the returned smoothed score lies strictly between r and p.
C11_StrictlyBetweenWheneverDifferent ==
    (ret.op = "applyEMASmoothing" /\ ret.before # None /\ ret.newScore # Val(ret.before))
        => StrictlyBetween(ret.value, ret.newScore, Val(ret.before))

\* C11: on a call with a history entry p and a raw score r, the returned
\* smoothed score lies strictly between r and p when they differ by 2 or
\* more, and equals p when they differ by exactly 1 (0.3 rounds away).
C11_StrictlyBetweenFromTwoApart ==
    (ret.op = "applyEMASmoothing" /\ ret.before # None)
        => /\ Abs(ret.newScore - Val(ret.before)) >= 2
                => StrictlyBetween(ret.value, ret.newScore, Val(ret.before))
           /\ Abs(ret.newScore - Val(ret.before)) = 1 => ret.value = Val(ret.before)

\* Raw score 60 on a history entry of 62 has returned 61.
C11_Witness ==
    /\ ret.op = "applyEMASmoothing"
    /\ ret.before = Some(62)
    /\ ret.newScore = 60
    /\ ret.value = 61


(***************************************************************************)
(* Trend score (src/trend-monitor.js:1737-2045)                            *)
(***************************************************************************)
\* One source's term of the authority sum: its weight and
\* reliability * weight * Math.min(100, (total / saturation) * 100).
AuthorityTerm(name, total, saturation) ==
    [weight |-> Frac(SOURCE_WEIGHTS[name].weight, 100),
     score  |-> FMul(Frac(SOURCE_WEIGHTS[name].reliability * SOURCE_WEIGHTS[name].weight, 10000),
                     FMin(F(100), Frac(100 * total, saturation)))]

ListAuthority(name, list, saturation) ==
    IF NonEmpty(list) THEN <<AuthorityTerm(name, TotalResults(list), saturation)>> ELSE <<>>

AuthorityTerms(in) ==
    (IF in.googleTrends # Null /\ in.googleTrends.allTrends > 0
     THEN << [weight |-> Frac(SOURCE_WEIGHTS.googleTrends.weight, 100),
              score  |-> FMul(Frac(SOURCE_WEIGHTS.googleTrends.reliability
                                     * SOURCE_WEIGHTS.googleTrends.weight, 10000),
                              F(IF in.googleTrends.hasMatches THEN 100 ELSE 20))] >>
     ELSE <<>>)
    \o ListAuthority("googleNewsRss", in.googleNewsRss, 30)
    \o ListAuthority("newsData", in.newsData, 50)
    \o ListAuthority("serpApi", in.serpResults, 30)
    \o ListAuthority("reddit", in.reddit, 20)
    \o ListAuthority("hackerNews", in.hackerNews, 20)
    \o (IF in.additionalRss # Null /\ in.additionalRss.totalMatches > 0
        THEN <<AuthorityTerm("additionalRss", in.additionalRss.totalMatches, 10)>>
        ELSE <<>>)

\* authorityScore = totalWeight > 0 ? authorityScore / totalWeight : 0
WeightedAuthority(terms) ==
    IF Len(terms) > 0
    THEN FDiv(FSum([i \in 1..Len(terms) |-> terms[i].score]),
              FSum([i \in 1..Len(terms) |-> terms[i].weight]))
    ELSE F(0)

AuthorityScore(in) == WeightedAuthority(AuthorityTerms(in))

\* Fault variant: the recency of one source without its cap at 100.
SourceRecencyUncapped(list) == Frac(TotalWeighted(list), TotalResults(list))

\* Math.min(100, (totalWeighted / totalRaw) * 100) of one source
SourceRecency(list) == FMin(F(100), Frac(TotalWeighted(list), TotalResults(list)))

\* list && list.length > 0, and totalRaw > 0
HasRecency(list) == NonEmpty(list) /\ TotalResults(list) > 0

\* One more source averaged into the recency factor: r is the score so far
\* and the count of sources in it, counts whether this source is counted.
AddRecency(r, list, counts) ==
    IF HasRecency(list)
    THEN [score |-> IF r.count > 0
                    THEN FDiv(FAdd(r.score, SourceRecency(list)), F(2))
                    ELSE SourceRecency(list),
          count |-> IF counts THEN r.count + 1 ELSE r.count]
    ELSE r

\* The recency factor: Google News RSS, then NewsData, then SerpAPI.
RecencyScore(in) ==
    AddRecency(AddRecency(AddRecency([score |-> F(50), count |-> 0],
                                     in.googleNewsRss, TRUE),
                          in.newsData, TRUE),
               in.serpResults, FALSE).score

\* Fault variant: no neutral default without Google Trends.
MomentumScoreNoDefault(in) ==
    IF in.googleTrends # Null
    THEN Frac(100 * RegionsWithMatches(in.googleTrends), Cardinality(GOOGLE_TRENDS_REGIONS))
    ELSE F(0)

\* The momentum factor.
MomentumScore(in) ==
    IF in.googleTrends # Null
    THEN Frac(100 * RegionsWithMatches(in.googleTrends), Cardinality(GOOGLE_TRENDS_REGIONS))
    ELSE F(50)

\* The relevance factor.
RelevanceScore(in) ==
    IF in.googleTrends # Null /\ in.googleTrends.hasMatches
    THEN Min(100, Len(in.googleTrends.matchingTrends) * 25)
    ELSE 0

ListArticles(list) ==
    IF NonEmpty(list)
    THEN Flatten([i \in 1..Len(list.results) |-> list.results[i].articles])
    ELSE <<>>

\* articleObjectsForSentiment
ArticleObjectsForSentiment(in) ==
    LET all == ListArticles(in.googleNewsRss) \o ListArticles(in.newsData)
               \o ListArticles(in.serpResults) \o ListArticles(in.reddit)
               \o ListArticles(in.hackerNews)
               \o (IF in.additionalRss # Null THEN in.additionalRss.allMatchingArticles ELSE <<>>)
    IN  SelectSeq(all, LAMBDA a : Len(a.title) > 0)

\* The weighted sum of the six factors, velocity given as a real.
WeightedScore(velocity, relevance, authority, recency, momentum, sentiment) ==
    FSum(<< FMul(Frac(20, 100), velocity),
            FMul(Frac(20, 100), F(relevance)),
            FMul(Frac(15, 100), authority),
            FMul(Frac(15, 100), recency),
            FMul(Frac(20, 100), momentum),
            FMul(Frac(10, 100), F(sentiment)) >>)

\* The pairs <<smoothedScore, previousScore>> for which the velocity is
\* exactly k + 0.5 and its double evaluation is just below it.
VelocityTieRoundsDown == { <<9, 20>>, <<18, 40>>, <<27, 60>>, <<36, 80>>, <<45, 100>> }

\* The pairs <<finalScore, previousScore>> for which the change percentage
\* is exactly k + 0.5 and its double evaluation is just below it.
ChangeTieRoundsDown == { <<29, 40>>, <<58, 80>>, <<63, 40>>, <<81, 40>>, <<91, 40>> }

\* Fault variant: the change as a fraction, not a percentage.
ChangeFraction(finalScore, previousScore) ==
    Round(Frac(finalScore - previousScore, previousScore))

\* Math.round(((clampedFinalScore - previousScore) / previousScore) * 100)
ChangePercent(finalScore, previousScore) ==
    LET exact == Round(Frac(100 * (finalScore - previousScore), previousScore))
    IN  IF <<finalScore, previousScore>> \in ChangeTieRoundsDown THEN exact - 1 ELSE exact

\* The baseline used when the history has no previous score.
BaselineScore == 50

\* Fault variant: no baseline, a missing previous score counts as 0.
PreviousOrZero(previous) == IF previous = None THEN 0 ELSE Val(previous)

\* getPreviousScore(monitorId) || 50, given what getPreviousScore returned
PreviousOrBaseline(previous) == IF previous = None THEN BaselineScore ELSE Val(previous)

\* The five factors that do not depend on the history, and dataSourcesUsed.
TrendFactors(in) ==
    [relevanceScore |-> RelevanceScore(in),
     authorityScore |-> AuthorityScore(in),
     recencyScore |-> RecencyScore(in),
     momentumScore |-> MomentumScore(in),
     sentimentScore |-> calculateArticleSentiment(ArticleObjectsForSentiment(in)).score,
     dataSourcesUsed |-> Len(ContributingSources(in))]

\* The weighted sum of the velocity and the factors f, rounded.
ScoreWithVelocity(velocity, f) ==
    Round(WeightedScore(velocity, f.relevanceScore, f.authorityScore, f.recencyScore,
                        f.momentumScore, f.sentimentScore))

\* velocityScore = 50 + ((smoothedScore - previousScore) / previousScore) * 50
VelocityScore(smoothedScore, previousScore) ==
    IF previousScore > 0
    THEN FAdd(F(50), FMul(Frac(smoothedScore - previousScore, previousScore), F(50)))
    ELSE F(50)

\* The returned object (value), with the store after the call and the locals
\* previousScore and clampedVelocity the object is computed from.
TrendResult(f, previousScore, rawScore, smoothed, clampedVelocity, clampedFinalScore) ==
    [store |-> smoothed.store,
     previousScore |-> previousScore,
     clampedVelocity |-> clampedVelocity,
     value |-> [trendScore |-> clampedFinalScore,
                rawScore |-> rawScore,
                smoothedScore |-> smoothed.value,
                changePercent |-> IF previousScore > 0
                                  THEN ChangePercent(clampedFinalScore, previousScore)
                                  ELSE 0,
                dataSourcesUsed |-> f.dataSourcesUsed,
                factors |-> [velocity |-> IF <<smoothed.value, previousScore>> \in VelocityTieRoundsDown
                                          THEN Round(clampedVelocity) - 1
                                          ELSE Round(clampedVelocity),
                             momentum |-> Round(f.momentumScore),
                             sentiment |-> f.sentimentScore,
                             relevance |-> f.relevanceScore,
                             authority |-> Round(f.authorityScore),
                             recency |-> Round(f.recencyScore)]]]

\* The final score, with the velocity clamped to 0..100 in place of 50.
TrendWithVelocity(f, previousScore, rawScore, smoothed, clampedVelocity) ==
    TrendResult(f, previousScore, rawScore, smoothed, clampedVelocity,
                Clamp0to100(ScoreWithVelocity(clampedVelocity, f)))

\* The raw score is smoothed, and the velocity taken from the smoothed score.
TrendSmoothed(f, previousScore, rawScore, smoothed) ==
    TrendWithVelocity(f, previousScore, rawScore, smoothed,
                      FClamp0to100(VelocityScore(smoothed.value, previousScore)))

\* The raw score: the weighted sum with the velocity at its baseline 50.
TrendOfRaw(previous, f, rawScore, monitorId) ==
    TrendSmoothed(f, PreviousOrBaseline(previous.value), rawScore,
                  applyEMASmoothing(previous.store, rawScore, monitorId))

TrendOfFactors(previous, f, monitorId) ==
    TrendOfRaw(previous, f, ScoreWithVelocity(F(50), f), monitorId)

\* calculateTrendScoreV2(googleTrends, ..., additionalRss, monitorId)
calculateTrendScoreV2(store, in, monitorId) ==
    TrendOfFactors(getPreviousScore(store, monitorId), TrendFactors(in), monitorId)

(***************************************************************************)
(* Source results given to the scorers                                     *)
(***************************************************************************)
InputFields == {"googleTrends", "googleNewsRss", "newsData", "serpResults",
                "reddit", "hackerNews", "additionalRss"}

Article(title) == [title |-> title]

PositiveTitle == <<"amazing", "growth">>
NegativeTitle == <<"terrible", "crisis", "bad">>
NeutralTitle == <<"meeting", "tomorrow">>
MixedTitle == <<"good", "meeting">>

NoRegions == [g \in GOOGLE_TRENDS_REGIONS |-> 0]
Regions(matching) == [g \in GOOGLE_TRENDS_REGIONS |-> IF g \in matching THEN 1 ELSE 0]

\* Every source absent.
AllAbsent == [f \in InputFields |-> Null]

\* One result with data for each source.
PresentSource ==
    [googleTrends  |-> GoogleTrendsResult(10, <<Some(100), Some(50)>>, Regions({"US", "GB"})),
     googleNewsRss |-> List(<<TermResult(10, Some(800), <<Article(PositiveTitle)>>)>>),
     newsData      |-> List(<<TermResult(40, Some(250), <<Article(NegativeTitle)>>)>>),
     serpResults   |-> List(<<TermResult(3, Some(150), <<Article(NeutralTitle)>>)>>),
     reddit        |-> List(<<TermResult(6, Some(700), <<Article(MixedTitle)>>)>>),
     hackerNews    |-> List(<<TermResult(20, Some(1000), <<>>)>>),
     additionalRss |-> AdditionalRss(<<Article(PositiveTitle), Article(<<>>), Article(NeutralTitle)>>)]

\* Every combination of present and absent sources.
PresenceInputs ==
    {[f \in InputFields |-> IF f \in present THEN PresentSource[f] ELSE Null] :
        present \in SUBSET InputFields}

TrendsEmpty == GoogleTrendsResult(0, <<>>, NoRegions)
TrendsNoMatch == GoogleTrendsResult(10, <<>>, NoRegions)
TrendsOne == GoogleTrendsResult(10, <<Some(100)>>, Regions({"US"}))
TrendsFuture == GoogleTrendsResult(10, <<Some(200), Some(200), Some(200), Some(200)>>,
                                   Regions(GOOGLE_TRENDS_REGIONS))
TrendsNaN == GoogleTrendsResult(10, <<None, Some(25)>>, [NoRegions EXCEPT !["US"] = 2])
NoResults == List(<<TermResult(0, Some(0), <<>>)>>)

\* Further results: empty and zero results, several terms, NaN and
\* future-dated recency weights, saturated sources.
VariantInputs ==
    { [AllAbsent EXCEPT !.googleTrends = TrendsEmpty],
      [AllAbsent EXCEPT !.googleTrends = TrendsNoMatch],
      [AllAbsent EXCEPT !.googleTrends = TrendsOne],
      [AllAbsent EXCEPT !.googleTrends = TrendsFuture],
      [AllAbsent EXCEPT !.googleTrends = TrendsNaN],
      [AllAbsent EXCEPT !.googleTrends = TrendsEmpty, !.googleNewsRss = NoResults,
                        !.reddit = NoResults, !.hackerNews = NoResults,
                        !.additionalRss = AdditionalRss(<<>>)],
      [AllAbsent EXCEPT !.googleTrends = TrendsEmpty, !.googleNewsRss = List(<<>>),
                        !.reddit = List(<<>>), !.hackerNews = List(<<>>),
                        !.additionalRss = AdditionalRss(<<>>)],
      [AllAbsent EXCEPT !.googleTrends = TrendsNoMatch,
                        !.googleNewsRss = List(<<TermResult(10, Some(800), <<>>)>>)],
      [AllAbsent EXCEPT !.googleNewsRss = List(<<TermResult(10, Some(800), <<>>),
                                                 TermResult(0, Some(0), <<>>)>>)],
      [AllAbsent EXCEPT !.googleNewsRss = List(<<TermResult(10, None, <<Article(NegativeTitle)>>)>>)],
      [AllAbsent EXCEPT !.googleNewsRss = List(<<TermResult(10, Some(1000),
                                                   <<Article(PositiveTitle), Article(PositiveTitle)>>)>>),
                        !.newsData = List(<<TermResult(5, Some(250), <<Article(NegativeTitle)>>)>>),
                        !.serpResults = List(<<TermResult(10, Some(1000), <<Article(<<>>)>>)>>)],
      [AllAbsent EXCEPT !.googleNewsRss = List(<<TermResult(10, Some(1000), <<>>)>>),
                        !.newsData = List(<<TermResult(10, Some(1000), <<>>)>>),
                        !.serpResults = List(<<TermResult(10, Some(0), <<>>)>>)],
      [AllAbsent EXCEPT !.newsData = List(<<TermResult(10, Some(500), <<>>)>>),
                        !.serpResults = List(<<TermResult(10, Some(1000), <<>>)>>)],
      [AllAbsent EXCEPT !.serpResults = List(<<TermResult(3, Some(600), <<Article(PositiveTitle)>>)>>)],
      [googleTrends  |-> TrendsFuture,
       googleNewsRss |-> List(<<TermResult(30, Some(3000), <<Article(PositiveTitle)>>)>>),
       newsData      |-> List(<<TermResult(50, Some(500), <<Article(PositiveTitle)>>)>>),
       serpResults   |-> List(<<TermResult(30, Some(3000), <<Article(PositiveTitle)>>)>>),
       reddit        |-> List(<<TermResult(20, Some(4000), <<Article(PositiveTitle)>>)>>),
       hackerNews    |-> List(<<TermResult(20, Some(4000), <<Article(PositiveTitle)>>)>>),
       additionalRss |-> AdditionalRss(<<Article(PositiveTitle), Article(PositiveTitle)>>)],
      [AllAbsent EXCEPT !.googleTrends = TrendsNoMatch,
                        !.googleNewsRss = List(<<TermResult(1, Some(0), <<Article(NegativeTitle)>>)>>),
                        !.newsData = List(<<TermResult(1, Some(0), <<Article(NegativeTitle)>>)>>),
                        !.serpResults = List(<<TermResult(1, Some(0), <<Article(NegativeTitle)>>)>>)],
      [AllAbsent EXCEPT !.googleTrends = TrendsNoMatch,
                        !.googleNewsRss = List(<<TermResult(1, Some(0), <<Article(<<"terrible">>)>>)>>)],
      [AllAbsent EXCEPT !.reddit = List(<<TermResult(6, Some(700), <<Article(NegativeTitle)>>),
                                          TermResult(0, Some(0), <<>>)>>),
                        !.hackerNews = List(<<TermResult(0, Some(0), <<>>),
                                              TermResult(0, Some(0), <<>>)>>)] }

ScoringInputs == PresenceInputs \cup VariantInputs

(***************************************************************************)
(* Reading the previous scores (src/trend-monitor.js:512-520)              *)
(***************************************************************************)
\* The history entry fetchActiveMonitors leaves for a page whose trend_score
\* property holds number (None when it is empty): previousTrendScore is
\* number || null, and the entry is set only when it is not null.
SeedEntry(number) == IF number = None \/ Val(number) = 0 THEN None ELSE number

\* Values of the trend_score property of a page.
PersistedScores == {None} \cup {Some(n) : n \in {0, 1, 7, 20, 40, 50, 80, 100}}

(***************************************************************************)
(* The scorers driven on their own: one scoring pass is what               *)
(* analyzeMonitorTrends computes (src/trend-monitor.js:2102-2110), here    *)
(* for any source results and any history read from persisted scores       *)
(***************************************************************************)
ScoringResult(in, coherenceData, trend) ==
    [store |-> trend.store,
     coherenceData |-> coherenceData,
     trendData |-> trend.value,
     previousScore |-> trend.previousScore,
     clampedVelocity |-> trend.clampedVelocity,
     confidenceData |-> calculateConfidenceV2(in, coherenceData.coherenceScore)]

ScoringPass(store, in, monitorId) ==
    ScoringResult(in, calculateCoherenceScore(in), calculateTrendScoreV2(store, in, monitorId))

InitScore ==
    /\ NoWorld
    /\ scoreHistory \in [MonitorIds -> {SeedEntry(n) : n \in PersistedScores}]
    /\ histLog = <<>>
    /\ pc = "idle"
    /\ ret = NoCall

ScorePass(m, in) ==
    /\ pc = "idle"
    /\ ret = NoCall
    /\ ret' = [op |-> "score", monitorId |-> m, in |-> in, before |-> scoreHistory,
               pass |-> ScoringPass([map |-> scoreHistory, log |-> <<>>], in, m)]
    /\ scoreHistory' = ret'.pass.store.map
    /\ histLog' = ret'.pass.store.log
    /\ pc' = "returned"
    /\ UNCHANGED world

NextScore == \E m \in MonitorIds, in \in ScoringInputs : ScorePass(m, in)

SpecScore == InitScore /\ [][NextScore]_vars

\* The entry of the scored monitor before the pass.
Before == ret.before[ret.monitorId]

\* C1: the trendScore and the coherenceScore a scoring pass reports are both
\* integers within 0..100, whatever sources are present or absent and
\* whatever previous score the history holds.
C1_ScoresWithinRange ==
    ret.op = "score"
        => /\ ret.pass.trendData.trendScore \in 0..100
           /\ ret.pass.coherenceData.coherenceScore \in 0..100

\* A pass on a previous score of 1 with future-dated Google Trends matches:
\* the velocity is cut to 100 and the coherence to 100.
C1_Witness ==
    /\ ret.op = "score"
    /\ Before = Some(1)
    /\ ret.in = [AllAbsent EXCEPT !.googleTrends = TrendsFuture]
    /\ ret.pass.clampedVelocity = F(100)
    /\ ret.pass.coherenceData.coherenceScore = 100
    /\ ret.pass.trendData.trendScore = 85

\* C2: a scoring pass with every source absent and no previous score yields
\* the defaults relevance 0, authority 0, recency 50, momentum 50,
\* sentiment 50, coherence 0 with level Noise and no factors, confidence 10,
\* and trendScore and changePercent are integers.
C2_AllAbsentDefaults ==
    (ret.op = "score" /\ ret.in = AllAbsent /\ Before = None)
        => /\ ret.pass.trendData.factors.relevance = 0
           /\ ret.pass.trendData.factors.authority = 0
           /\ ret.pass.trendData.factors.recency = 50
           /\ ret.pass.trendData.factors.momentum = 50
           /\ ret.pass.trendData.factors.sentiment = 50
           /\ ret.pass.coherenceData
                = [coherenceScore |-> 0, coherenceLevel |-> "Noise", factors |-> None]
           /\ ret.pass.confidenceData.confidence = 10
           /\ ret.pass.trendData.trendScore \in 0..100
           /\ ret.pass.trendData.changePercent \in Int
           /\ ret.pass.trendData.rawScore \in 0..100
           /\ ret.pass.trendData.smoothedScore \in 0..100

\* The pass with every source absent and no previous score has returned.
C2_Witness ==
    /\ ret.op = "score"
    /\ ret.in = AllAbsent
    /\ Before = None
    /\ ret.pass.trendData.trendScore = 29
    /\ ret.pass.trendData.changePercent = -42
    /\ ret.pass.confidenceData.dataPoints = 0

\* The previous score a pass must have used, given the entry before it.
UsedPrevious == IF Before = None THEN BaselineScore ELSE Val(Before)

\* v is x / d (d > 0) rounded to the nearest integer.
Nearest(v, x, d) == 2 * Abs(v * d - x) <= d

\* C7: within one scoring pass the monitor's history entry is read before it
\* is written, it is written exactly once, every access is to that
\* monitor's entry and the other entries keep their values; the velocity
\* factor and changePercent are computed against the value the entry held
\* before the pass.
C7_ReadBeforeWrite ==
    ret.op = "score"
        => LET m == ret.monitorId
               p == UsedPrevious
               sets == {i \in 1..Len(histLog) : histLog[i].op = "set"}
               velocity == 50 * p + 50 * (ret.pass.trendData.smoothedScore - p)
           IN  /\ Len(histLog) > 0
               /\ histLog[1] = [op |-> "get", key |-> m]
               /\ Cardinality(sets) = 1
               /\ \A i \in 1..Len(histLog) : histLog[i].key = m
               /\ \A o \in MonitorIds \ {m} : scoreHistory[o] = ret.before[o]
               /\ scoreHistory[m] = Some(ret.pass.trendData.smoothedScore)
               /\ ret.pass.previousScore = p
               /\ IF velocity >= 100 * p THEN ret.pass.trendData.factors.velocity = 100
                  ELSE IF velocity <= 0 THEN ret.pass.trendData.factors.velocity = 0
                  ELSE Nearest(ret.pass.trendData.factors.velocity, velocity, p)
               /\ Nearest(ret.pass.trendData.changePercent,
                          100 * (ret.pass.trendData.trendScore - p), p)

\* A pass for m1 on an entry of 80 while m12 holds 50: the entry moved to 77,
\* velocity and changePercent are those against 80, m12 still holds 50.
C7_Witness ==
    /\ ret.op = "score"
    /\ ret.monitorId = "m1"
    /\ ret.before = [m1 |-> Some(80), m12 |-> Some(50)]
    /\ ret.in = [AllAbsent EXCEPT !.googleTrends = TrendsFuture]
    /\ scoreHistory = [m1 |-> Some(ret.pass.trendData.smoothedScore), m12 |-> Some(50)]
    /\ ret.pass.trendData.smoothedScore # 80
    /\ ret.pass.previousScore = 80
    /\ Len(histLog) = 3

\* C8 as stated: on a pass whose stored previous score is absent or 0 the
\* velocity factor is 50.
C8_VelocityIsFifty ==
    (ret.op = "score" /\ Before = None) => ret.pass.trendData.factors.velocity = 50

\* C8: on a pass whose stored previous score is absent or 0 the baseline 50
\* stands in for the previous score, so that the velocity factor is
\* 50 + (smoothedScore - 50), the smoothed score itself, which on such a pass
\* is the raw score; it is 50 only when the raw score is 50.
C8_VelocityIsRawScore ==
    (ret.op = "score" /\ Before = None)
        => /\ ret.pass.previousScore = 50
           /\ ret.pass.trendData.smoothedScore = ret.pass.trendData.rawScore
           /\ ret.pass.trendData.factors.velocity = ret.pass.trendData.rawScore

\* A first pass with a raw score of 75 has a velocity factor of 75.
C8_Witness ==
    /\ ret.op = "score"
    /\ Before = None
    /\ ret.pass.trendData.rawScore = 75
    /\ ret.pass.trendData.factors.velocity = 75

\* C9 as stated: on a monitor's first pass changePercent is the change of the
\* final score against the pass's own raw score.
C9_ChangeAgainstRawScore ==
    (ret.op = "score" /\ Before = None)
        => Nearest(ret.pass.trendData.changePercent,
                   100 * (ret.pass.trendData.trendScore - ret.pass.trendData.rawScore),
                   ret.pass.trendData.rawScore)

\* C9: on a monitor's first pass changePercent is the change of the final
\* score against the baseline 50: round((finalScore - 50) / 50 * 100).
C9_ChangeAgainstBaseline ==
    (ret.op = "score" /\ Before = None)
        => /\ ret.pass.previousScore = 50
           /\ ret.pass.trendData.changePercent = 2 * (ret.pass.trendData.trendScore - 50)

\* A first pass with raw score 33 and final score 29 reports -42, the change
\* against 50, and not -12, the change against 33.
C9_Witness ==
    /\ ret.op = "score"
    /\ Before = None
    /\ ret.pass.trendData.rawScore = 33
    /\ ret.pass.trendData.trendScore = 29
    /\ ret.pass.trendData.changePercent = -42

(***************************************************************************)
(* calculateConfidenceV2 driven on its own, for any source results and     *)
(* any coherence score                                                     *)
(***************************************************************************)
CoherenceScores == 0..100

InitConf ==
    /\ NoWorld
    /\ scoreHistory = EmptyHistory
    /\ histLog = <<>>
    /\ pc = "idle"
    /\ ret \in [op : {"args"}, in : ScoringInputs, coherenceScore : CoherenceScores]

CallConfidence ==
    /\ pc = "idle"
    /\ ret.op = "args"
    /\ ret' = [op |-> "calculateConfidenceV2", in |-> ret.in,
               coherenceScore |-> ret.coherenceScore,
               value |-> calculateConfidenceV2(ret.in, ret.coherenceScore)]
    /\ pc' = "returned"
    /\ UNCHANGED <<scoreHistory, histLog, world>>

NextConf == CallConfidence

SpecConf == InitConf /\ [][NextConf]_vars

\* C3: calculateConfidenceV2 returns a confidence within 10..98 for every
\* combination of sources and every coherence score in 0..100, and exactly
\* 10 when no source contributes data.
C3_ConfidenceWithinRange ==
    ret.op = "calculateConfidenceV2"
        => /\ ret.value.confidence \in 10..98
           /\ (ret.value.dataPoints = 0 => ret.value.confidence = 10)

\* All seven sources contributing with a coherence of 100 has returned 94.
C3_Witness ==
    /\ ret.op = "calculateConfidenceV2"
    /\ ret.in = PresentSource
    /\ ret.coherenceScore = 100
    /\ ret.value.dataPoints = 7
    /\ ret.value.confidence = 94

(***************************************************************************)
(* The Notion workspace (src/trend-monitor.js:46-48, 487-540, 911-933)     *)
(***************************************************************************)
\* The active pages of the monitors database, in the order a query returns
\* them.
PageOrder == <<"p1", "p2">>


\* The properties of a monitor page that the run reads or writes, and the
\* content of the page: None while it holds no block, else the trend score
\* the report blocks on it were written for.
Page(monitor_id, threshold, interval, last_check, trend_score) ==
    [monitor_id |-> monitor_id, threshold |-> threshold, interval |-> interval,
     last_check |-> last_check, trend_score |-> trend_score, content |-> None]

\* A monitor identifier as text, character by character.
IdText == [m1 |-> <<"m", "1">>, m12 |-> <<"m", "1", "2">>]

\* `Monitor: ${monitor.monitorId}`, the source property of an alert page
SourceText(monitorId) == <<"M", "o", "n", "i", "t", "o", "r", ":", " ">> \o IdText[monitorId]

\* The rich_text filter { contains: part } applied to text.
Contains(text, part) ==
    \E i \in 0..(Len(text) - Len(part)) : SubSeq(text, i + 1, i + Len(part)) = part

\* props.x?.number || fallback
NumberOr(number, fallback) ==
    IF number = None \/ Val(number) = 0 THEN fallback ELSE Val(number)

\* The monitor object fetchActiveMonitors builds from a page.
MonitorOf(pageId, page) ==
    [pageId |-> pageId,
     monitorId |-> page.monitor_id,
     threshold |-> NumberOr(page.threshold, 20),
     interval |-> IF page.interval = None THEN "week" ELSE Val(page.interval),
     lastCheck |-> page.last_check,
     previousTrendScore |-> SeedEntry(page.trend_score)]

\* fetchActiveMonitors(): the monitors of the pages in query order, each
\* page with a previous trend score pre-populating the score history.
RECURSIVE fetchActiveMonitors(_, _, _)
fetchActiveMonitors(order, db, store) ==
    IF order = <<>> THEN [store |-> store, value |-> <<>>]
    ELSE LET monitor == MonitorOf(Head(order), db[Head(order)])
             seeded == IF monitor.previousTrendScore # None
                       THEN MapSet(store, monitor.monitorId, Val(monitor.previousTrendScore))
                       ELSE store
             rest == fetchActiveMonitors(Tail(order), db, seeded)
         IN  [store |-> rest.store, value |-> <<monitor>> \o rest.value]

\* shouldCheck(monitor) on day now; last_check is a date, so the elapsed
\* time reaches n days exactly when n days have begun since.
shouldCheck(monitor, now) ==
    IF monitor.lastCheck = None THEN TRUE
    ELSE LET daysDiff == now - Val(monitor.lastCheck)
         IN  IF monitor.interval = "week" THEN daysDiff >= 7
             ELSE IF monitor.interval = "month" THEN daysDiff >= 30
             ELSE daysDiff >= 1

\* The signals database query of alertExistsToday has a result: a TREND
\* alert page of today whose source contains monitorId.
AlertToday(monitorId) ==
    \E i \in 1..Len(signals) :
        /\ Contains(signals[i].source, IdText[monitorId])
        /\ signals[i].timestamp = today

\* Fault variant: a failing query reports that no alert exists.
alertExistsTodayOptimistic(monitorId, queryFails) ==
    IF ~env.SIGNALS_DB THEN FALSE
    ELSE IF queryFails THEN FALSE
    ELSE AlertToday(monitorId)

\* alertExistsToday(monitorId); queryFails when the database query throws.
alertExistsToday(monitorId, queryFails) ==
    IF ~env.SIGNALS_DB THEN FALSE
    ELSE IF queryFails THEN TRUE
    ELSE AlertToday(monitorId)

\* updateMonitor(pageId, results): the monitors database after it and its
\* value; fails when the page update throws.
\* calls are the Notion write requests that were carried out.
updateMonitor(pageId, results, fails) ==
    IF env.DRY_RUN THEN [db |-> pages, value |-> TRUE, calls |-> {}]
    ELSE IF fails THEN [db |-> pages, value |-> FALSE, calls |-> {}]
    ELSE [db |-> [pages EXCEPT ![pageId].last_check = Some(today),
                               ![pageId].trend_score = Some(results.trendScore)],
          value |-> TRUE,
          calls |-> {"pages.update"}]

\* Fault variant: the page content is rewritten in a dry run too.
updateMonitorContentUnguarded(db, pageId, results) ==
    [db |-> [db EXCEPT ![pageId].content = Some(results.trendScore)],
     value |-> TRUE,
     calls |-> (IF db[pageId].content # None THEN {"blocks.delete"} ELSE {})
               \cup {"blocks.children.append"}]

\* updateMonitorContent(pageId, monitor, results) on the monitors database
\* db: clearPageContent deletes every block the page holds, then the report
\* blocks are appended.
updateMonitorContent(db, pageId, results) ==
    IF env.DRY_RUN THEN [db |-> db, value |-> TRUE, calls |-> {}]
    ELSE [db |-> [db EXCEPT ![pageId].content = Some(results.trendScore)],
          value |-> TRUE,
          calls |-> (IF db[pageId].content # None THEN {"blocks.delete"} ELSE {})
                    \cup {"blocks.children.append"}]

\* createAlert(monitor, trendData): the signals database after it and its
\* value; fails when the page creation throws.
createAlert(monitor, fails) ==
    IF env.DRY_RUN THEN [db |-> signals, value |-> TRUE, calls |-> {}]
    ELSE IF fails THEN [db |-> signals, value |-> FALSE, calls |-> {}]
    ELSE [db |-> Append(signals, [source |-> SourceText(monitor.monitorId),
                                  timestamp |-> today]),
          value |-> TRUE,
          calls |-> {"pages.create"}]

(***************************************************************************)
(* main() (src/trend-monitor.js:2322-2441)                                 *)
(***************************************************************************)
\* Runs started in one behaviour, and Notion or analysis failures in it.
MaxRuns == 2
MaxFaults == 1

\* Days that pass between two runs.
DayAdvances == {0, 1, 7}

\* What the fetchers return for a monitor's terms: nothing found anywhere
\* (no API keys, so NewsData and SerpAPI are null), and a topic that trends
\* in every region and is widely covered.
Quiet ==
    [googleTrends  |-> TrendsNoMatch,
     googleNewsRss |-> NoResults,
     newsData      |-> Null,
     serpResults   |-> Null,
     reddit        |-> NoResults,
     hackerNews    |-> NoResults,
     additionalRss |-> AdditionalRss(<<>>)]

Surge ==
    [googleTrends  |-> GoogleTrendsResult(10, <<Some(100), Some(100), Some(50), Some(50)>>,
                                          Regions(GOOGLE_TRENDS_REGIONS)),
     googleNewsRss |-> List(<<TermResult(10, Some(800), <<Article(PositiveTitle)>>)>>),
     newsData      |-> Null,
     serpResults   |-> Null,
     reddit        |-> List(<<TermResult(6, Some(700), <<Article(MixedTitle)>>)>>),
     hackerNews    |-> List(<<TermResult(20, Some(1000), <<>>)>>),
     additionalRss |-> AdditionalRss(<<Article(PositiveTitle)>>)]

PipelineInputs == {Quiet, Surge}

Faults == {"none", "analyze", "update", "query", "create"}

InitialPages ==
    {[p1 |-> Page("m1", None, None, None, score),
      p2 |-> Page(id, Some(64), Some("day"), None, None)] :
        score \in {None, Some(0)}, id \in MonitorIds}

Init ==
    /\ scoreHistory = EmptyHistory
    /\ histLog = <<>>
    /\ pc = "init"
    /\ ret = NoCall
    /\ pages \in InitialPages
    /\ signals = <<>>
    /\ env \in [DRY_RUN : BOOLEAN, SIGNALS_DB : BOOLEAN]
    /\ today = 0
    /\ run = <<>>
    /\ budget = [runs |-> 0, faults |-> 0]
    /\ lastPass = [m \in MonitorIds |-> None]

\* A new process starts, some days after the previous one.
StartRun(days) ==
    /\ pc \in {"init", "exited"}
    /\ budget.runs < MaxRuns
    /\ budget.runs = 0 => days = 0
    /\ today' = today + days
    /\ budget' = [budget EXCEPT !.runs = @ + 1]
    /\ scoreHistory' = EmptyHistory
    /\ histLog' = <<>>
    /\ run' = <<>>
    /\ ret' = NoCall
    /\ pc' = "started"
    /\ UNCHANGED <<pages, signals, env, lastPass>>

\* Steps 1 and 2 of main(): fetch the monitors, keep those due.
FetchMonitors ==
    /\ pc = "started"
    /\ LET fetched == fetchActiveMonitors(PageOrder, pages, [map |-> scoreHistory, log |-> <<>>])
       IN  /\ scoreHistory' = fetched.store.map
           /\ histLog' = fetched.store.log
           /\ run' = [monitors |-> fetched.value,
                      monitorsToCheck |-> SelectSeq(fetched.value, LAMBDA mo : shouldCheck(mo, today)),
                      analyzed |-> 0, alerts |-> 0, errors |-> 0,
                      exitCode |-> None, outcome |-> NoCall]
    /\ pc' = "loop"
    /\ UNCHANGED <<ret, pages, signals, env, today, budget, lastPass>>

\* The connection test or the monitors query throws: the outer catch.
FatalError ==
    /\ pc = "started"
    /\ budget.faults < MaxFaults
    /\ budget' = [budget EXCEPT !.faults = @ + 1]
    /\ run' = [monitors |-> <<>>, monitorsToCheck |-> <<>>,
               analyzed |-> 0, alerts |-> 0, errors |-> 0,
               exitCode |-> Some(1), outcome |-> NoCall]
    /\ pc' = "exited"
    /\ UNCHANGED <<scoreHistory, histLog, ret, pages, signals, env, today, lastPass>>

\* Fault variant: the threshold must be exceeded strictly.
thresholdExceededStrictly(trendData, monitor) ==
    Abs(trendData.changePercent) > monitor.threshold

\* Math.abs(trendData.changePercent) >= monitor.threshold
thresholdExceeded(trendData, monitor) ==
    Abs(trendData.changePercent) >= monitor.threshold

\* One iteration of the loop of step 3, on the first monitor still to check:
\* the sources return in, and fault names the call that throws, if any.
ProcessMonitor(in, fault) ==
    /\ pc = "loop"
    /\ run.monitorsToCheck # <<>>
    /\ fault # "none" => budget.faults < MaxFaults
    /\ budget' = IF fault = "none" THEN budget ELSE [budget EXCEPT !.faults = @ + 1]
    /\ LET monitor == Head(run.monitorsToCheck)
       IN  IF fault = "analyze"
           THEN /\ ret' = [op |-> "monitor", monitor |-> monitor, threw |-> TRUE]
                /\ run' = [run EXCEPT !.monitorsToCheck = Tail(@), !.errors = @ + 1,
                                      !.outcome = NoCall]
                /\ UNCHANGED <<scoreHistory, histLog, pages, signals, lastPass>>
           ELSE /\ ret' = [op |-> "monitor", monitor |-> monitor, threw |-> FALSE,
                           in |-> in, fault |-> fault, runIndex |-> budget.runs,
                           before |-> scoreHistory,
                           preceding |-> lastPass[monitor.monitorId],
                           pass |-> ScoringPass([map |-> scoreHistory, log |-> <<>>],
                                                in, monitor.monitorId)]
                /\ scoreHistory' = ret'.pass.store.map
                /\ histLog' = ret'.pass.store.log
                /\ LET trendData == ret'.pass.trendData
                       updated == updateMonitor(monitor.pageId, trendData, fault = "update")
                       content == updateMonitorContent(updated.db, monitor.pageId, trendData)
                       exceeded == thresholdExceeded(trendData, monitor)
                       queried == exceeded /\ env.SIGNALS_DB
                       alertExists == queried /\ alertExistsToday(monitor.monitorId, fault = "query")
                       invoked == queried /\ ~alertExists
                       created == IF invoked THEN createAlert(monitor, fault = "create")
                                  ELSE [db |-> signals, value |-> FALSE, calls |-> {}]
                   IN  /\ fault = "update" => ~env.DRY_RUN
                       /\ fault = "query" => queried
                       /\ fault = "create" => invoked /\ ~env.DRY_RUN
                       /\ pages' = content.db
                       /\ signals' = created.db
                       /\ run' = [run EXCEPT
                                    !.monitorsToCheck = Tail(@),
                                    !.analyzed = IF updated.value THEN @ + 1 ELSE @,
                                    !.alerts = IF created.value THEN @ + 1 ELSE @,
                                    !.outcome = [op |-> "outcome",
                                                 updated |-> updated.value,
                                                 exceeded |-> exceeded,
                                                 alertToday |-> AlertToday(monitor.monitorId),
                                                 alertExists |-> alertExists,
                                                 createAlert |-> invoked,
                                                 created |-> created.value,
                                                 writes |-> updated.calls \cup content.calls
                                                            \cup created.calls]]
                       /\ lastPass' = [lastPass EXCEPT ![monitor.monitorId] =
                                         Some([smoothedScore |-> trendData.smoothedScore,
                                               runIndex |-> budget.runs,
                                               persisted |-> updated.calls # {}])]
    /\ pc' = "loop"
    /\ UNCHANGED <<env, today>>

\* Fault variant: the exit code does not tell of errors.
ExitCodeZero(errors) == 0

\* errors > 0 ? 1 : 0
ExitCode(errors) == IF errors > 0 THEN 1 ELSE 0

\* The loop is over: the summary and process.exit(errors > 0 ? 1 : 0).
Finish ==
    /\ pc = "loop"
    /\ run.monitorsToCheck = <<>>
    /\ run' = [run EXCEPT !.exitCode = Some(ExitCode(run.errors)), !.outcome = NoCall]
    /\ ret' = NoCall
    /\ histLog' = <<>>
    /\ pc' = "exited"
    /\ UNCHANGED <<scoreHistory, pages, signals, env, today, budget, lastPass>>

Next ==
    \/ \E days \in DayAdvances : StartRun(days)
    \/ FetchMonitors
    \/ FatalError
    \/ \E in \in PipelineInputs, fault \in Faults : ProcessMonitor(in, fault)
    \/ Finish

Spec == Init /\ [][Next]_vars

\* The pass of the last iteration follows a pass of the same monitor whose
\* smoothed score the history can hold: a pass earlier in this run, or a pass
\* of an earlier run whose result updateMonitor wrote to the page.
FollowsPass ==
    /\ ret.op = "monitor"
    /\ ~ret.threw
    /\ ret.preceding # None
    /\ \/ Val(ret.preceding).runIndex = ret.runIndex
       \/ Val(ret.preceding).persisted

\* C6: the previous score a monitor's scoring pass uses is the smoothedScore
\* of that monitor's preceding pass, when both passes run in one process and
\* when the preceding pass was persisted and fetchActiveMonitors reloaded it
\* in a later run.
C6_PreviousIsPrecedingSmoothed ==
    FollowsPass => ret.pass.previousScore = Val(ret.preceding).smoothedScore

\* C10 as stated: whenever a checked monitor's pass yields a changePercent
\* whose absolute value reaches the monitor's threshold, createAlert is
\* invoked for that monitor in that run.
C10_AlertWheneverExceeded ==
    (ret.op = "monitor" /\ ~ret.threw
        /\ Abs(ret.pass.trendData.changePercent) >= ret.monitor.threshold)
        => run.outcome.createAlert

\* C10: createAlert is invoked for a checked monitor exactly when its pass
\* yields a changePercent whose absolute value reaches the monitor's
\* threshold, the signals database is configured, and the query for an
\* alert of today whose source contains the monitor's identifier succeeds
\* and finds none.
C10_AlertWhenExceededAndNoDuplicate ==
    (ret.op = "monitor" /\ ~ret.threw)
        => (run.outcome.createAlert
              <=> /\ Abs(ret.pass.trendData.changePercent) >= ret.monitor.threshold
                  /\ env.SIGNALS_DB
                  /\ ret.fault # "query"
                  /\ ~run.outcome.alertToday)

\* A pass whose changePercent equals the threshold in absolute value has had
\* an alert page created.
C10_Witness ==
    /\ ret.op = "monitor"
    /\ ~ret.threw
    /\ Abs(ret.pass.trendData.changePercent) = ret.monitor.threshold
    /\ run.outcome.createAlert
    /\ run.outcome.created
    /\ signals # <<>>
    /\ signals[Len(signals)] = [source |-> SourceText(ret.monitor.monitorId), timestamp |-> today]

\* C12: in a run with DRY_RUN enabled no step writes to Notion: the monitors
\* database (properties and page content) and the signals database stay as
\* they are, and the iteration carried out no update, block deletion, block
\* append or page creation request, whatever the scores and thresholds.
C12_DryRunWritesNothing ==
    [][env.DRY_RUN =>
          /\ pages' = pages
          /\ signals' = signals
          /\ (pc' = "loop" /\ run'.outcome # NoCall) => run'.outcome.writes = {}]_vars

\* A dry run has processed a monitor whose change exceeded the threshold and
\* gone through createAlert, and nothing was written.
C12_Witness ==
    /\ env.DRY_RUN
    /\ pc = "loop"
    /\ run.outcome # NoCall
    /\ run.outcome.updated
    /\ run.outcome.exceeded
    /\ run.outcome.createAlert
    /\ run.outcome.created
    /\ run.outcome.writes = {}
    /\ \A p \in DOMAIN pages : pages[p].trend_score \in {None, Some(0)} /\ pages[p].content = None
    /\ signals = <<>>

(***************************************************************************)
(* Article deduplication (src/trend-monitor.js:196-284)                    *)
(*                                                                         *)
(* A text is a sequence of characters; the empty sequence is the empty     *)
(* string, and None an undefined or null value.                            *)
(***************************************************************************)
UpperCaseLetters == <<"A", "B", "C", "D", "E", "F", "G", "H", "I", "J", "K", "L", "M", "N", "O", "P", "Q", "R", "S", "T", "U", "V", "W", "X", "Y", "Z">>
LowerCaseLetters == <<"a", "b", "c", "d", "e", "f", "g", "h", "i", "j", "k", "l", "m", "n", "o", "p", "q", "r", "s", "t", "u", "v", "w", "x", "y", "z">>
Digits == {"0", "1", "2", "3", "4", "5", "6", "7", "8", "9"}

\* String.prototype.toLowerCase, one character
LowerChar(c) ==
    IF \E k \in 1..Len(UpperCaseLetters) : UpperCaseLetters[k] = c
    THEN LowerCaseLetters[CHOOSE k \in 1..Len(UpperCaseLetters) : UpperCaseLetters[k] = c]
    ELSE c

\* String.prototype.toLowerCase
toLowerCase(text) == [i \in 1..Len(text) |-> LowerChar(text[i])]

\* replace(/[^a-z0-9\s]/g, ''): only lower-case letters, digits and white
\* space are kept
KeepAlnumAndSpace(text) ==
    SelectSeq(text, LAMBDA c : c = " " \/ c \in Digits
                               \/ \E k \in 1..Len(LowerCaseLetters) : LowerCaseLetters[k] = c)

\* split(/\s+/).filter(w => w.length > 2), as the set of words: word is the
\* word being read.
RECURSIVE LongWords(_, _)
LongWords(text, word) ==
    IF text = <<>> THEN (IF Len(word) > 2 THEN {word} ELSE {})
    ELSE IF Head(text) = " "
    THEN (IF Len(word) > 2 THEN {word} ELSE {}) \cup LongWords(Tail(text), <<>>)
    ELSE LongWords(Tail(text), Append(word, Head(text)))

\* normalize(t) of calculateTitleSimilarity, as new Set(normalize(t))
TitleWords(title) == LongWords(KeepAlnumAndSpace(toLowerCase(title)), <<>>)

\* intersection.size / union.size of two non-empty word sets
Jaccard(words1, words2) ==
    IF words1 = {} \/ words2 = {} THEN F(0)
    ELSE Frac(Cardinality(words1 \cap words2), Cardinality(words1 \cup words2))

\* calculateTitleSimilarity(title1, title2)
calculateTitleSimilarity(title1, title2) ==
    IF title1 = None \/ title2 = None THEN F(0)
    ELSE IF Val(title1) = <<>> \/ Val(title2) = <<>> THEN F(0)
    ELSE Jaccard(TitleWords(Val(title1)), TitleWords(Val(title2)))

\* The query parameters normalizeUrl deletes.
trackingParams ==
    { <<"u", "t", "m", "_", "s", "o", "u", "r", "c", "e">>,
      <<"u", "t", "m", "_", "m", "e", "d", "i", "u", "m">>,
      <<"u", "t", "m", "_", "c", "a", "m", "p", "a", "i", "g", "n">>,
      <<"u", "t", "m", "_", "t", "e", "r", "m">>,
      <<"u", "t", "m", "_", "c", "o", "n", "t", "e", "n", "t">>,
      <<"r", "e", "f">>,
      <<"s", "o", "u", "r", "c", "e">>,
      <<"f", "b", "c", "l", "i", "d">>,
      <<"g", "c", "l", "i", "d">>,
      <<"m", "s", "c", "l", "k", "i", "d">> }

\* A URL that parses: what precedes the query, and the query parameters in
\* order.  A string that does not parse as a URL is [raw |-> text].
Url(base, params) == [parses |-> TRUE, base |-> base, params |-> params]
NotUrl(raw) == [parses |-> FALSE, raw |-> raw]

Param(name, value) == [name |-> name, value |-> value]

\* trackingParams.forEach(param => parsed.searchParams.delete(param))
WithoutTracking(params) == SelectSeq(params, LAMBDA pa : pa.name \notin trackingParams)

LowerParams(params) ==
    [i \in 1..Len(params) |-> Param(toLowerCase(params[i].name), toLowerCase(params[i].value))]

\* normalizeUrl(url): '' for a missing or empty url; the parsed URL without
\* its tracking parameters, in lower case; the string itself in lower case
\* when it does not parse.
normalizeUrl(url) ==
    IF url = None THEN <<>>
    ELSE IF ~Val(url).parses
    THEN (IF Val(url).raw = <<>> THEN <<>> ELSE <<toLowerCase(Val(url).raw)>>)
    ELSE <<toLowerCase(Val(url).base), LowerParams(WithoutTracking(Val(url).params))>>

\* An article object: title and source may be missing (None); url is
\* article.link || article.url.
ArticleObject(title, url, source) == [title |-> title, url |-> url, source |-> source]

\* existing.sources = existing.sources || [existing.source], then the push of
\* article.source unless it is missing or already included: sources is the
\* sources property of existing, None while it has none.
MergeSource(sources, existing, article) ==
    IF article.source # None
       /\ \A k \in 1..Len(IF sources # None THEN Val(sources) ELSE <<existing.source>>) :
             (IF sources # None THEN Val(sources) ELSE <<existing.source>>)[k] # article.source
    THEN Some(Append(IF sources # None THEN Val(sources) ELSE <<existing.source>>, article.source))
    ELSE Some(IF sources # None THEN Val(sources) ELSE <<existing.source>>)

\* The locals of deduplicateArticles before the loop: seen maps a normalized
\* URL to the position of the article kept for it, titleGroups and result
\* hold positions of the input, sources is the sources property of each input
\* article, and branch records what the loop did with each article.
DedupStart(articles) ==
    [seen |-> {}, titleGroups |-> <<>>, result |-> <<>>,
     sources |-> [i \in 1..Len(articles) |-> None], branch |-> <<>>]

\* seen.get(normalizedUrl), 0 when seen does not have it
SeenAt(seen, normalizedUrl) ==
    IF \E e \in seen : e[1] = normalizedUrl
    THEN (CHOOSE e \in seen : e[1] = normalizedUrl)[2]
    ELSE 0

\* Fault variant: the last similar group wins.
LastSimilarGroup(titleGroups, articles, title, similarityThreshold) ==
    IF \E g \in 1..Len(titleGroups) :
           FLe(similarityThreshold,
               calculateTitleSimilarity(title, articles[titleGroups[g][1]].title))
    THEN CHOOSE g \in 1..Len(titleGroups) :
           /\ FLe(similarityThreshold,
                  calculateTitleSimilarity(title, articles[titleGroups[g][1]].title))
           /\ \A h \in (g + 1)..Len(titleGroups) :
                 ~FLe(similarityThreshold,
                      calculateTitleSimilarity(title, articles[titleGroups[h][1]].title))
    ELSE 0

\* The first group, in creation order, whose first article's title is
\* similar enough to title; 0 when there is none.
FirstSimilarGroup(titleGroups, articles, title, similarityThreshold) ==
    IF \E g \in 1..Len(titleGroups) :
           FLe(similarityThreshold,
               calculateTitleSimilarity(title, articles[titleGroups[g][1]].title))
    THEN CHOOSE g \in 1..Len(titleGroups) :
           /\ FLe(similarityThreshold,
                  calculateTitleSimilarity(title, articles[titleGroups[g][1]].title))
           /\ \A h \in 1..(g - 1) :
                 ~FLe(similarityThreshold,
                      calculateTitleSimilarity(title, articles[titleGroups[h][1]].title))
    ELSE 0

\* The URL branch: the article is merged into the one seen for its URL.
MergeByUrl(st, articles, i, existing) ==
    [st EXCEPT !.sources[existing] = MergeSource(@, articles[existing], articles[i]),
               !.branch = Append(@, [kind |-> "url", into |-> existing])]

\* The title branch: the article joins group g and is merged into its first.
MergeByTitle(st, articles, i, g) ==
    [st EXCEPT !.titleGroups[g] = Append(@, i),
               !.sources[st.titleGroups[g][1]] =
                   MergeSource(@, articles[st.titleGroups[g][1]], articles[i]),
               !.branch = Append(@, [kind |-> "title", into |-> st.titleGroups[g][1]])]

\* Fault variant: the URL of an article that starts a group is not recorded.
StartGroupUnseen(st, articles, i, normalizedUrl) ==
    [st EXCEPT !.titleGroups = Append(@, <<i>>),
               !.sources[i] = IF @ # None THEN @ ELSE Some(<<articles[i].source>>),
               !.result = Append(@, i),
               !.branch = Append(@, [kind |-> "new", into |-> i])]

\* Fault variant: the article is put in front of the result.
StartGroupInFront(st, articles, i, normalizedUrl) ==
    [st EXCEPT !.titleGroups = Append(@, <<i>>),
               !.seen = IF normalizedUrl # <<>> THEN @ \cup {<<normalizedUrl, i>>} ELSE @,
               !.sources[i] = IF @ # None THEN @ ELSE Some(<<articles[i].source>>),
               !.result = <<i>> \o @,
               !.branch = Append(@, [kind |-> "new", into |-> i])]

\* No similar group: the article starts one and goes to the result.
StartGroup(st, articles, i, normalizedUrl) ==
    [st EXCEPT !.titleGroups = Append(@, <<i>>),
               !.seen = IF normalizedUrl # <<>> THEN @ \cup {<<normalizedUrl, i>>} ELSE @,
               !.sources[i] = IF @ # None THEN @ ELSE Some(<<articles[i].source>>),
               !.result = Append(@, i),
               !.branch = Append(@, [kind |-> "new", into |-> i])]

\* One iteration of the loop, for the article at position i.
DedupArticle(st, articles, i, normalizedUrl, similarityThreshold) ==
    IF normalizedUrl # <<>> /\ SeenAt(st.seen, normalizedUrl) # 0
    THEN MergeByUrl(st, articles, i, SeenAt(st.seen, normalizedUrl))
    ELSE IF FirstSimilarGroup(st.titleGroups, articles, articles[i].title,
                              similarityThreshold) # 0
    THEN MergeByTitle(st, articles, i,
                      FirstSimilarGroup(st.titleGroups, articles, articles[i].title,
                                        similarityThreshold))
    ELSE StartGroup(st, articles, i, normalizedUrl)

\* The loop over the articles from position i on.
RECURSIVE DedupLoop(_, _, _, _)
DedupLoop(st, articles, i, similarityThreshold) ==
    IF i > Len(articles) THEN st
    ELSE DedupLoop(DedupArticle(st, articles, i, normalizeUrl(articles[i].url),
                                similarityThreshold),
                   articles, i + 1, similarityThreshold)

\* The returned object for the locals st at the end of the loop; each article
\* of the result carries its position in the input (the object it is) and
\* its sources property.  branch is kept for the record of the call.
DedupResult(st, articles) ==
    [articles |-> [k \in 1..Len(st.result) |->
                     [at |-> st.result[k],
                      title |-> articles[st.result[k]].title,
                      url |-> articles[st.result[k]].url,
                      source |-> articles[st.result[k]].source,
                      sources |-> st.sources[st.result[k]]]],
     originalCount |-> Len(articles),
     deduplicatedCount |-> Len(st.result),
     sources |-> st.sources,
     branch |-> st.branch]

\* deduplicateArticles(articles, similarityThreshold)
deduplicateArticles(articles, similarityThreshold) ==
    IF articles = <<>>
    THEN [articles |-> <<>>, originalCount |-> 0, deduplicatedCount |-> 0,
          sources |-> <<>>, branch |-> <<>>]
    ELSE DedupResult(DedupLoop(DedupStart(articles), articles, 1, similarityThreshold), articles)

(***************************************************************************)
(* deduplicateArticles driven on its own, on any list of up to MaxArticles *)
(* articles of the pool                                                    *)
(***************************************************************************)
\* Titles: "aaa bbb ccc"; the same words in other case and punctuation; two
\* more words (3 of 5 shared with the first); four of those five words (2 of
\* 5 shared with the first); and a title with no word of three letters.
TitleThree == Some(<<"a", "a", "a", " ", "b", "b", "b", " ", "c", "c", "c">>)
TitleThreeAgain == Some(<<"A", "a", "a", ",", " ", "B", "B", "B", " ", "c", "c", "c", "!">>)
TitleFive == Some(<<"a", "a", "a", " ", "b", "b", "b", " ", "c", "c", "c", " ", "d", "d", "d", " ", "e", "e", "e">>)
TitleFour == Some(<<"b", "b", "b", " ", "c", "c", "c", " ", "d", "d", "d", " ", "e", "e", "e">>)
TitleShortWords == Some(<<"a", "n", " ", "o", "x">>)

\* URLs: a page; the same page in other case with a tracking parameter;
\* another page; that page with the parameter name in other case and a
\* tracking parameter; and two strings that are no URL.
UrlA == Some(Url(<<"x", ".", "i", "o", "/", "a">>, <<>>))
UrlATracked == Some(Url(<<"X", ".", "i", "o", "/", "a">>, <<Param(<<"r", "e", "f">>, <<"9">>)>>))
UrlB == Some(Url(<<"x", ".", "i", "o", "/", "b">>, <<Param(<<"i", "d">>, <<"1">>)>>))
UrlBTracked == Some(Url(<<"x", ".", "i", "o", "/", "b">>, <<Param(<<"I", "D">>, <<"1">>), Param(<<"f", "b", "c", "l", "i", "d">>, <<"z">>)>>))
NotUrlUpper == Some(NotUrl(<<"Q">>))
NotUrlLower == Some(NotUrl(<<"q">>))

ArticlePool ==
    { ArticleObject(TitleThree, UrlA, Some("s1")),
      ArticleObject(TitleThreeAgain, UrlATracked, Some("s2")),
      ArticleObject(TitleFour, UrlATracked, Some("s2")),
      ArticleObject(TitleThree, UrlB, Some("s2")),
      ArticleObject(TitleFour, UrlBTracked, Some("s1")),
      ArticleObject(TitleFive, None, Some("s1")),
      ArticleObject(None, None, None),
      ArticleObject(TitleShortWords, NotUrlUpper, Some("s2")),
      ArticleObject(TitleFour, NotUrlLower, None) }

\* The longest list of articles handed to deduplicateArticles.
MaxArticles == 3

\* similarityThreshold: the default 0.6, and 0.8
SimilarityThresholds == {Frac(6, 10), Frac(8, 10)}

InitDedup ==
    /\ NoWorld
    /\ scoreHistory = EmptyHistory
    /\ histLog = <<>>
    /\ pc = "idle"
    /\ ret = NoCall

CallDedup(articles, similarityThreshold) ==
    /\ pc = "idle"
    /\ ret' = [op |-> "deduplicateArticles", articles |-> articles,
               similarityThreshold |-> similarityThreshold,
               value |-> deduplicateArticles(articles, similarityThreshold)]
    /\ pc' = "returned"
    /\ UNCHANGED <<scoreHistory, histLog, world>>

ReturnDedup ==
    /\ pc = "returned"
    /\ ret' = NoCall
    /\ pc' = "idle"
    /\ UNCHANGED <<scoreHistory, histLog, world>>

NextDedup ==
    \/ \E n \in 0..MaxArticles, similarityThreshold \in SimilarityThresholds :
          \E articles \in [1..n -> ArticlePool] : CallDedup(articles, similarityThreshold)
    \/ ReturnDedup

SpecDedup == InitDedup /\ [][NextDedup]_vars

\* The positions of the input that the returned articles are.
OutputPositions == {ret.value.articles[k].at : k \in 1..Len(ret.value.articles)}

\* C13: deduplicateArticles returns a sub-sequence of its input in first-seen
\* order (the returned articles are input articles at strictly increasing
\* positions, unchanged in title, url and source), its length equals
\* deduplicatedCount, and deduplicatedCount <= originalCount, the length of
\* the input.
C13_OutputIsSubsequence ==
    ret.op = "deduplicateArticles"
        => /\ ret.value.originalCount = Len(ret.articles)
           /\ ret.value.deduplicatedCount = Len(ret.value.articles)
           /\ ret.value.deduplicatedCount <= ret.value.originalCount
           /\ \A k \in 1..Len(ret.value.articles) :
                 /\ ret.value.articles[k].at \in 1..Len(ret.articles)
                 /\ k > 1 => ret.value.articles[k - 1].at < ret.value.articles[k].at
                 /\ ret.value.articles[k].title = ret.articles[ret.value.articles[k].at].title
                 /\ ret.value.articles[k].url = ret.articles[ret.value.articles[k].at].url
                 /\ ret.value.articles[k].source = ret.articles[ret.value.articles[k].at].source

\* Three articles, the second a duplicate of the first: the first and the
\* third are returned, in that order.
C13_Witness ==
    /\ ret.op = "deduplicateArticles"
    /\ Len(ret.articles) = 3
    /\ ret.value.originalCount = 3
    /\ ret.value.deduplicatedCount = 2
    /\ Len(ret.value.articles) = 2
    /\ ret.value.articles[1].at = 1
    /\ ret.value.articles[2].at = 3

\* The first position of the input whose article has the normalized URL of
\* the article at position j.
FirstWithUrl(j) ==
    CHOOSE i \in 1..j :
        /\ normalizeUrl(ret.articles[i].url) = normalizeUrl(ret.articles[j].url)
        /\ \A h \in 1..(i - 1) :
              normalizeUrl(ret.articles[h].url) # normalizeUrl(ret.articles[j].url)

\* The sources property of the input article at position i includes source.
HasSource(i, source) ==
    /\ ret.value.sources[i] # None
    /\ \E k \in 1..Len(Val(ret.value.sources[i])) : Val(ret.value.sources[i])[k] = source

\* C14: when two input articles have the same non-empty normalized URL, the
\* later one is not in the output and its source name is among the sources of
\* the first article of the input with that URL.
C14_SameUrlLaterDropped ==
    ret.op = "deduplicateArticles"
        => \A j \in 1..Len(ret.articles) :
              (normalizeUrl(ret.articles[j].url) # <<>> /\ FirstWithUrl(j) < j)
                  => /\ j \notin OutputPositions
                     /\ ret.articles[j].source # None
                            => HasSource(FirstWithUrl(j), ret.articles[j].source)

\* The heads of the groups created before the article at position i was
\* handled whose title is similar enough to its title.
SimilarHeadsBefore(i) ==
    {h \in 1..(i - 1) :
        /\ ret.value.branch[h].kind = "new"
        /\ FLe(ret.similarityThreshold,
               calculateTitleSimilarity(ret.articles[i].title, ret.articles[h].title))}

SourcesWithTotal(in) ==
    SelectSeq(<<in.googleNewsRss, in.newsData, in.serpResults>>, HasRecency)

\* The unweighted mean of weightedCount / totalCount * 100 over those sources,
\* 50 when there is none.
MeanOfSources(in) ==
    IF SourcesWithTotal(in) = <<>> THEN F(50)
    ELSE FDiv(FSum([i \in 1..Len(SourcesWithTotal(in)) |->
                       Frac(TotalWeighted(SourcesWithTotal(in)[i]),
                            TotalResults(SourcesWithTotal(in)[i]))]),
              F(Len(SourcesWithTotal(in))))

\* C16: the recency factor of a pass is the unweighted arithmetic mean of
\* weightedCount / totalCount * 100 over all sources with a nonzero total,
\* each counting equally however many there are, and 50 when no source has a
\* nonzero total.
C16_RecencyIsMeanOfSources ==
    ret.op = "score"
        => ret.pass.trendData.factors.recency = Round(MeanOfSources(ret.in))

(***************************************************************************)
(* Action recommendations (src/trend-monitor.js:372-478, 2249-2266)        *)
(***************************************************************************)
\* Texts are sequences of their parts, so that a template with ${term} is
\* the concatenation the code builds.

\* monitor.terms[0] || 'this topic'
TermOrTopic(terms) == IF terms = <<>> \/ terms[1] = "" THEN "this topic" ELSE terms[1]

\* A pushed recommendation object; isModifier is absent on bucket entries.
Recommendation(priority, text, isModifier) ==
    [priority |-> priority, text |-> text, isModifier |-> isModifier]

\* The three entries pushed at lines 382-393.
HighBucket(term) ==
    << Recommendation("high", <<"Create content about ", term, " - high trending activity detected">>, FALSE),
       Recommendation("high", <<"Consider market entry - strong positive signal across sources">>, FALSE),
       Recommendation("high", <<"Monitor competitor activity - trend gaining momentum">>, FALSE) >>

\* The three entries pushed at lines 397-408.
MediumBucket ==
    << Recommendation("medium", <<"Track this trend - moderate activity detected">>, FALSE),
       Recommendation("medium", <<"Research deeper - mixed signals need clarification">>, FALSE),
       Recommendation("medium", <<"Set up alerts - potential emerging opportunity">>, FALSE) >>

\* The three entries pushed at lines 412-423.
LowBucket ==
    << Recommendation("low", <<"Continue monitoring - no significant activity">>, FALSE),
       Recommendation("low", <<"Review search terms - may need refinement">>, FALSE),
       Recommendation("low", <<"Check back next cycle - insufficient data">>, FALSE) >>

LowConfidenceModifier ==
    Recommendation("low", <<"Low confidence - gather more data before acting">>, TRUE)

HighConfidenceModifier ==
    Recommendation("high", <<"High confidence signal - action recommended">>, TRUE)

NegativeSentimentCaution ==
    Recommendation("medium", <<"Caution: Negative sentiment detected">>, TRUE)

PositiveSentimentNote ==
    Recommendation("medium", <<"Positive sentiment - favorable environment">>, TRUE)

\* Variant of the bucket choice: the medium bucket looks at trendScore only.
BucketEntriesTrendOnly(trendScore, coherence, term) ==
    IF trendScore > 70 /\ coherence > 60 THEN HighBucket(term)
    ELSE IF trendScore >= 40 /\ trendScore <= 70 THEN MediumBucket
    ELSE IF trendScore < 40 THEN LowBucket
    ELSE <<>>

\* The if / else if / else if chain of lines 381-424.
BucketEntries(trendScore, coherence, term) ==
    IF trendScore > 70 /\ coherence > 60 THEN HighBucket(term)
    ELSE IF (trendScore >= 40 /\ trendScore <= 70) \/ (coherence >= 40 /\ coherence <= 60)
         THEN MediumBucket
    ELSE IF trendScore < 40 THEN LowBucket
    ELSE <<>>

\* Confidence-based modifiers (lines 427-439).
ConfidenceEntries(confidence) ==
    IF confidence < 30 THEN <<LowConfidenceModifier>>
    ELSE IF confidence > 70 THEN <<HighConfidenceModifier>>
    ELSE <<>>

\* Sentiment-based additions (lines 442-454).
SentimentEntries(sentiment) ==
    IF sentiment < 40 THEN <<NegativeSentimentCaution>>
    ELSE IF sentiment > 60 THEN <<PositiveSentimentNote>>
    ELSE <<>>

\* The list for the values read at lines 374-378.
RecommendationsFor(term, trendScore, coherence, confidence, sentiment) ==
    BucketEntries(trendScore, coherence, term)
        \o ConfidenceEntries(confidence) \o SentimentEntries(sentiment)

\* generateActionRecommendations: the four numbers are optional, terms is
\* monitor.terms.  trendScore, coherence and confidence default with || 0,
\* the sentiment factor with || 50.
generateActionRecommendations(trendScore, coherenceScore, confidence, sentiment, terms) ==
    RecommendationsFor(TermOrTopic(terms), OrZero(trendScore), OrZero(coherenceScore),
                       OrZero(confidence), OrHalf(sentiment))

priorityOrder == [high |-> 0, medium |-> 1, low |-> 2]

priorityEmoji == [high |-> "red circle", medium |-> "yellow circle", low |-> "green circle"]

\* recommendations.sort by priorityOrder; Array.prototype.sort is stable.
SortByPriority(recommendations) ==
    SelectSeq(recommendations, LAMBDA rec : priorityOrder[rec.priority] = 0)
        \o SelectSeq(recommendations, LAMBDA rec : priorityOrder[rec.priority] = 1)
        \o SelectSeq(recommendations, LAMBDA rec : priorityOrder[rec.priority] = 2)

\* Variant of the sort that is not stable: within a priority the modifiers
\* come before the bucket entries.
SortModifiersFirst(recommendations) ==
    SortByPriority(SelectSeq(recommendations, LAMBDA rec : rec.isModifier)
                       \o SelectSeq(recommendations, LAMBDA rec : ~rec.isModifier))

\* { ...rec, formattedText: `${priorityEmoji[rec.priority]} ${rec.text}` }
Formatted(rec) ==
    [priority |-> rec.priority, text |-> rec.text, isModifier |-> rec.isModifier,
     formattedText |-> <<priorityEmoji[rec.priority], " ">> \o rec.text]

\* sorted.slice(0, 3).map(...)
TopThreeFormatted(sorted) == [i \in 1..Min(3, Len(sorted)) |-> Formatted(sorted[i])]

prioritizeRecommendationsUnstable(recommendations) ==
    TopThreeFormatted(SortModifiersFirst(recommendations))

prioritizeRecommendations(recommendations) ==
    TopThreeFormatted(SortByPriority(recommendations))

\* prioritizedRecommendations[0].formattedText, or 'No recommendations'
TopRecommendation(prioritized) ==
    IF Len(prioritized) > 0 THEN prioritized[1].formattedText ELSE <<"No recommendations">>

\* The recommendation part of analyzeMonitorTrends (lines 2249-2266).
RecommendationResult(rawRecommendations, prioritized) ==
    [rawRecommendations |-> rawRecommendations,
     prioritizedRecommendations |-> prioritized,
     recommendations |-> [i \in 1..Len(prioritized) |-> prioritized[i].formattedText],
     topRecommendation |-> TopRecommendation(prioritized)]

Recommend(trendScore, coherenceScore, confidence, sentiment, terms) ==
    RecommendationResult(
        generateActionRecommendations(trendScore, coherenceScore, confidence, sentiment, terms),
        prioritizeRecommendations(
            generateActionRecommendations(trendScore, coherenceScore, confidence, sentiment, terms)))

(***************************************************************************)
(* Recommendations driven on their own                                     *)
(***************************************************************************)
\* Values around every threshold of the rule table, and a missing value.
TrendInputs == {None, Some(0), Some(39), Some(40), Some(70), Some(71), Some(80), Some(100)}
CoherenceInputs == {None, Some(0), Some(39), Some(40), Some(60), Some(61), Some(70), Some(100)}
ConfidenceInputs == {None, Some(10), Some(29), Some(30), Some(70), Some(71), Some(98)}
SentimentInputs == {None, Some(0), Some(1), Some(39), Some(40), Some(50), Some(60), Some(61), Some(100)}
TermLists == {<<>>, <<"">>, <<"widget">>, <<"widget", "gadget">>}

InitRecs ==
    /\ NoWorld
    /\ scoreHistory = EmptyHistory
    /\ histLog = <<>>
    /\ pc = "idle"
    /\ ret = NoCall

CallRecommend(trendScore, coherenceScore, confidence, sentiment, terms) ==
    /\ pc = "idle"
    /\ ret' = [op |-> "recommend", trendScore |-> trendScore,
               coherenceScore |-> coherenceScore, confidence |-> confidence,
               sentiment |-> sentiment, terms |-> terms,
               value |-> Recommend(trendScore, coherenceScore, confidence, sentiment, terms)]
    /\ pc' = "returned"
    /\ UNCHANGED <<scoreHistory, histLog, world>>

ReturnRecommend ==
    /\ pc = "returned"
    /\ ret' = NoCall
    /\ pc' = "idle"
    /\ UNCHANGED <<scoreHistory, histLog, world>>

NextRecs ==
    \/ \E trendScore \in TrendInputs, coherenceScore \in CoherenceInputs,
          confidence \in ConfidenceInputs, sentiment \in SentimentInputs, terms \in TermLists :
          CallRecommend(trendScore, coherenceScore, confidence, sentiment, terms)
    \/ ReturnRecommend

SpecRecs == InitRecs /\ [][NextRecs]_vars

\* s contains the entries of bucket, consecutively and in their order.
ContainsInOrder(s, bucket) ==
    \E k \in 0..(Len(s) - Len(bucket)) : \A i \in 1..Len(bucket) : s[k + i] = bucket[i]

\* s contains the entry rec.
HasEntry(s, rec) == \E i \in 1..Len(s) : s[i] = rec

\* C17: whenever trendScore > 70 and coherence > 60, for any confidence and
\* sentiment, the generated list contains the three high-priority bucket
\* entries in their listed order (they are its first three entries and the
\* three that survive the sort and the cut to three), and the top
\* recommendation is the first-listed high-priority string with its glyph.
C17_HighBucketOnTop ==
    (/\ ret.op = "recommend"
     /\ OrZero(ret.trendScore) > 70
     /\ OrZero(ret.coherenceScore) > 60)
        => /\ SubSeq(ret.value.rawRecommendations, 1, 3) = HighBucket(TermOrTopic(ret.terms))
           /\ Len(ret.value.prioritizedRecommendations) = 3
           /\ \A i \in 1..3 :
                 /\ ret.value.prioritizedRecommendations[i].priority = "high"
                 /\ ret.value.prioritizedRecommendations[i].text
                        = HighBucket(TermOrTopic(ret.terms))[i].text
           /\ ret.value.topRecommendation
                  = <<"red circle", " ", "Create content about ", TermOrTopic(ret.terms),
                      " - high trending activity detected">>

\* trendScore 80, coherence 70 and confidence 98: the high-priority
\* confidence modifier was generated fourth and cut, the top recommendation
\* is the content entry for "widget".
C17_Witness ==
    /\ ret.op = "recommend"
    /\ ret.trendScore = Some(80)
    /\ ret.coherenceScore = Some(70)
    /\ ret.confidence = Some(98)
    /\ ret.terms = <<"widget">>
    /\ Len(ret.value.rawRecommendations) >= 4
    /\ ret.value.rawRecommendations[4] = HighConfidenceModifier
    /\ ret.value.topRecommendation
           = <<"red circle", " ", "Create content about ", "widget",
               " - high trending activity detected">>

C19_CautionBelowForty ==
    (ret.op = "recommend" /\ ret.sentiment # None /\ Val(ret.sentiment) < 40)
        => HasEntry(ret.value.rawRecommendations, NegativeSentimentCaution)

(***************************************************************************)
(* calculateSentiment on text (src/unnamed/part_006:242-275)               *)
(***************************************************************************)
\* A string argument, as its sequence of characters; Null stands for a
\* missing or non-string argument.
Text(chars) == [kind |-> "string", chars |-> chars]

\* !text || typeof text !== 'string'
NoText(text) == text = Null \/ text.chars = <<>>

\* The characters the class [\w\s'-] keeps; the only white space is " ".
KeptBySentiment(c) ==
    \/ c \in Digits \cup {"_", " ", "'", "-"}
    \/ \E k \in 1..Len(LowerCaseLetters) : LowerCaseLetters[k] = c
    \/ \E k \in 1..Len(UpperCaseLetters) : UpperCaseLetters[k] = c

\* replace(/[^\w\s'-]/g, ' ')
PunctuationToSpace(chars) == [i \in 1..Len(chars) |-> IF KeptBySentiment(chars[i]) THEN chars[i] ELSE " "]

\* split(/\s+/).filter(word => word.length > 0): word is the word being read
RECURSIVE SplitWords(_, _)
SplitWords(chars, word) ==
    IF chars = <<>> THEN (IF word = <<>> THEN <<>> ELSE <<word>>)
    ELSE IF Head(chars) = " "
    THEN (IF word = <<>> THEN <<>> ELSE <<word>>) \o SplitWords(Tail(chars), <<>>)
    ELSE SplitWords(Tail(chars), Append(word, Head(chars)))

\* The words of a text: lowercase, punctuation to spaces, split.
Tokenize(chars) == SplitWords(PunctuationToSpace(toLowerCase(chars)), <<>>)

\* The spelling of the keys of AFINN_WORDS that the texts can form.
Spelling ==
    (<<"b", "a", "d">> :> "bad") @@ (<<"g", "o", "o", "d">> :> "good")
        @@ (<<"t", "e", "r", "r", "o", "r">> :> "terror")
        @@ (<<"s", "u", "p", "e", "r", "b">> :> "superb")

\* The key a word is looked up under; a word that spells no key is not an own
\* property of AFINN_WORDS.
KeyOf(word) == IF word \in DOMAIN Spelling THEN Spelling[word] ELSE "(no key)"

\* calculateSentiment(text) on a text argument.
SentimentOfWords(words) == calculateSentiment([i \in 1..Len(words) |-> KeyOf(words[i])])

SentimentOfText(text) == IF NoText(text) THEN 50 ELSE SentimentOfWords(Tokenize(text.chars))

\* The pieces texts are made of: lexicon words in lower, mixed and upper
\* case, a word outside the lexicon, white space, punctuation that is
\* replaced and punctuation that is kept.
TextPieces ==
    { <<"b", "a", "d">>, <<"G", "o", "o", "d">>, <<"t", "e", "r", "r", "o", "r">>,
      <<"S", "U", "P", "E", "R", "B">>, <<"o", "x">>, <<" ">>, <<"!">>, <<"-">>, <<"'">> }

MaxPieces == 3

Texts == {Null} \cup {Text(Flatten(pieces)) : pieces \in UNION {[1..n -> TextPieces] : n \in 0..MaxPieces}}

InitSentiment ==
    /\ NoWorld
    /\ scoreHistory = EmptyHistory
    /\ histLog = <<>>
    /\ pc = "idle"
    /\ ret = NoCall

CallSentiment(text) ==
    /\ pc = "idle"
    /\ ret' = [op |-> "calculateSentiment", text |-> text, value |-> SentimentOfText(text)]
    /\ pc' = "returned"
    /\ UNCHANGED <<scoreHistory, histLog, world>>

ReturnSentiment ==
    /\ pc = "returned"
    /\ ret' = NoCall
    /\ pc' = "idle"
    /\ UNCHANGED <<scoreHistory, histLog, world>>

NextSentiment ==
    \/ \E text \in Texts : CallSentiment(text)
    \/ ReturnSentiment

SpecSentiment == InitSentiment /\ [][NextSentiment]_vars

\* No word of the text is a key of the lexicon; so for an empty or missing
\* text.
NoLexiconToken(text) ==
    NoText(text) \/ \A i \in 1..Len(Tokenize(text.chars)) : Tokenize(text.chars)[i] \notin DOMAIN Spelling

\* C20: for any text calculateSentiment returns an integer in 0..100, and
\* exactly 50 whenever no token of the text is in the lexicon, an empty or
\* missing text included.
C20_SentimentInRangeAndNeutral ==
    ret.op = "calculateSentiment"
        => /\ ret.value \in 0..100
           /\ NoLexiconToken(ret.text) => ret.value = 50

\* "!-": the exclamation mark is replaced, the hyphen is kept and is a word
\* outside the lexicon, the result is 50.
C20_Witness ==
    /\ ret.op = "calculateSentiment"
    /\ ret.text = Text(<<"!", "-">>)
    /\ Tokenize(ret.text.chars) = << <<"-">> >>
    /\ ret.value = 50

(***************************************************************************)
(* calculateRecencyWeight (src/trend-monitor.js:104-113)                   *)
(***************************************************************************)
RECENCY_HALF_LIFE_DAYS == 3

\* The pubDate argument: a falsy value (undefined, null, ''), a value that
\* new Date() turns into an Invalid Date, or a date, given as its day.
MissingDate == [kind |-> "missing"]
UnparseableDate == [kind |-> "invalid"]
DateOn(day) == [kind |-> "date", day |-> day]

\* Math.pow(2, x) for an integer x, as an exact value
PowerOfTwo(x) == IF x >= 0 THEN F(2 ^ x) ELSE Frac(1, 2 ^ (0 - x))

\* calculateRecencyWeight(pubDate) when new Date() is the day now; the
\* result is an optional exact value, None being NaN.  now - articleDate is
\* NaN for an Invalid Date, and so is all that is computed from it.  The
\* days of the dates and of now are multiples of the half-life, so that the
\* power is exact.
calculateRecencyWeight(pubDate, now) ==
    IF pubDate.kind = "missing" THEN Some(Frac(1, 2))
    ELSE IF pubDate.kind = "invalid" THEN None
    ELSE Some(PowerOfTwo((0 - (now - pubDate.day)) \div RECENCY_HALF_LIFE_DAYS))

MaxHalfLives == 9

\* The days new Date() can be, and the arguments: dates from two half-lives
\* before the first day to one after the last.
NowDays == {RECENCY_HALF_LIFE_DAYS * i : i \in 0..MaxHalfLives}
PubDates ==
    {MissingDate, UnparseableDate}
        \cup {DateOn(RECENCY_HALF_LIFE_DAYS * j) : j \in (0 - 2)..(MaxHalfLives + 1)}

InitRecency ==
    /\ NoWorld
    /\ scoreHistory = EmptyHistory
    /\ histLog = <<>>
    /\ pc = "idle"
    /\ ret = NoCall

CallRecencyWeight(pubDate, now) ==
    /\ pc = "idle"
    /\ ret' = [op |-> "calculateRecencyWeight", pubDate |-> pubDate, now |-> now,
               value |-> calculateRecencyWeight(pubDate, now)]
    /\ pc' = "returned"
    /\ UNCHANGED <<scoreHistory, histLog, world>>

ReturnRecencyWeight ==
    /\ pc = "returned"
    /\ ret' = NoCall
    /\ pc' = "idle"
    /\ UNCHANGED <<scoreHistory, histLog, world>>

NextRecency ==
    \/ \E pubDate \in PubDates, now \in NowDays : CallRecencyWeight(pubDate, now)
    \/ ReturnRecencyWeight

SpecRecency == InitRecency /\ [][NextRecency]_vars

\* C21: calculateRecencyWeight returns exactly 0.5 both when the timestamp
\* is missing and when it is present but unparseable as a date.
C21_HalfForMissingAndUnparseable ==
    (ret.op = "calculateRecencyWeight" /\ ret.pubDate.kind \in {"missing", "invalid"})
        => ret.value = Some(Frac(1, 2))

(***************************************************************************)
(* Successive applyEMASmoothing calls (src/trend-monitor.js:119-131)       *)
(***************************************************************************)
\* The calls of a process are recorded in run, oldest first, each with its
\* monitor, its raw score and the value it returned.
MaxCalls == 3
ExampleScores == {60, 70, 80}

InitEMACalls ==
    /\ NoWorld
    /\ scoreHistory = EmptyHistory
    /\ histLog = <<>>
    /\ pc = "idle"
    /\ ret = NoCall

CallEMARecorded(m, r) ==
    /\ pc = "idle"
    /\ Len(run) < MaxCalls
    /\ ret' = [op |-> "applyEMASmoothing", monitorId |-> m, newScore |-> r,
               before |-> scoreHistory[m],
               call |-> applyEMASmoothing([map |-> scoreHistory, log |-> <<>>], r, m)]
    /\ scoreHistory' = ret'.call.store.map
    /\ histLog' = ret'.call.store.log
    /\ run' = Append(run, [monitorId |-> m, newScore |-> r, value |-> ret'.call.value])
    /\ pc' = "returned"
    /\ UNCHANGED <<pages, signals, env, today, budget, lastPass>>

ReturnEMARecorded ==
    /\ pc = "returned"
    /\ pc' = "idle"
    /\ ret' = NoCall
    /\ histLog' = <<>>
    /\ UNCHANGED <<scoreHistory, world>>

NextEMACalls ==
    \/ \E m \in MonitorIds, r \in ExampleScores : CallEMARecorded(m, r)
    \/ ReturnEMARecorded

SpecEMACalls == InitEMACalls /\ [][NextEMACalls]_vars

\* The calls made so far for monitor m.
CallsFor(m) == SelectSeq(run, LAMBDA c : c.monitorId = m)

\* The raw scores and the returned values of a sequence of calls.
ScoresOf(calls) == [i \in 1..Len(calls) |-> calls[i].newScore]
ValuesOf(calls) == [i \in 1..Len(calls) |-> calls[i].value]

AlertsOf(m, day) ==
    {i \in 1..Len(signals) : signals[i].source = SourceText(m) /\ signals[i].timestamp = day}

\* C23: across any number of runs on one calendar day at most one TREND
\* alert is created per monitor: createAlert is invoked only when the
\* same-day duplicate query reported no existing alert for the monitor, and
\* a failing duplicate query suppresses the creation.
C23_OneAlertPerMonitorAndDay ==
    /\ \A m \in MonitorIds, day \in 0..today : Cardinality(AlertsOf(m, day)) <= 1
    /\ (pc = "loop" /\ run.outcome # NoCall /\ run.outcome.createAlert)
           => /\ ~run.outcome.alertToday
              /\ ret.fault # "query"
    /\ (pc = "loop" /\ run.outcome # NoCall /\ ret.fault = "query")
           => /\ run.outcome.alertExists
              /\ ~run.outcome.createAlert
              /\ ~run.outcome.created

\* The second run of a day processed a monitor again, its threshold was
\* exceeded again, and the alert of the first run suppressed a second one.
C23_Witness ==
    /\ pc = "loop"
    /\ budget.runs = 2
    /\ run.outcome # NoCall
    /\ run.outcome.exceeded
    /\ run.outcome.alertToday
    /\ run.outcome.alertExists
    /\ ~run.outcome.createAlert
    /\ ret.fault = "none"
    /\ Cardinality(AlertsOf(ret.monitor.monitorId, today)) = 1

\* C30: a same-day alert that belongs to one monitor never suppresses the
\* alert of a different monitor, also when one identifier is a prefix or a
\* substring of the other: when a monitor's threshold is exceeded, the
\* signals database is configured and the duplicate query does not fail,
\* the alert is skipped only if an alert of that same monitor exists today.
C30_OtherMonitorsAlertNeverSuppresses ==
    (/\ pc = "loop"
     /\ run.outcome # NoCall
     /\ run.outcome.exceeded
     /\ env.SIGNALS_DB
     /\ ret.fault # "query"
     /\ ~run.outcome.createAlert)
        => AlertsOf(ret.monitor.monitorId, today) # {}

(***************************************************************************)
(* notionRequest (src/trend-monitor.js:163-178, src/scanner.js:194-209)    *)
(***************************************************************************)
\* What one invocation of the wrapped call fn does: it resolves with a
\* value or rejects with an error object that has a code and a status.
Resolved(value) == [kind |-> "resolved", value |-> value]
Rejected(code, status) == [kind |-> "rejected", code |-> code, status |-> status]

\* Fault variant: only the code of the error is looked at.
IsRateLimitedByCode(error) == error.code = "rate_limited"

\* error.code === 'rate_limited' || error.status === 429
IsRateLimited(error) == error.code = "rate_limited" \/ error.status = 429

MaxRetries == 4

\* The retries argument (3 when it is left out).
RetriesArguments == 0..MaxRetries

FnOutcomes ==
    {Resolved("response"),
     Rejected("rate_limited", 429), Rejected("rate_limited", 0), Rejected("other", 429),
     Rejected("validation_error", 400)}

\* The frame of a notionRequest call: the loop variable i, what the
\* invocations of fn did so far, the delays slept, and how the call ended.
EnterLoop(retries) ==
    [op |-> "notionRequest", retries |-> retries, i |-> 0, invoked |-> <<>>,
     slept |-> <<>>, result |-> NoCall]

\* new Error('Max retries exceeded')
MaxRetriesExceeded == [kind |-> "error", message |-> "Max retries exceeded"]

\* The loop condition i < retries; when it fails, the throw after the loop.
LoopTest(frame) ==
    IF frame.i < frame.retries THEN frame
    ELSE [frame EXCEPT !.result = [kind |-> "threw", error |-> MaxRetriesExceeded]]

\* One iteration of the loop body, fn doing outcome.
Iteration(frame, outcome) ==
    IF outcome.kind = "resolved"
    THEN [frame EXCEPT !.invoked = Append(@, outcome),
                       !.result = [kind |-> "returned", value |-> outcome.value]]
    ELSE IF IsRateLimited(outcome)
    THEN LoopTest([frame EXCEPT !.invoked = Append(@, outcome),
                                !.slept = Append(@, (2 ^ frame.i) * 1000),
                                !.i = @ + 1])
    ELSE [frame EXCEPT !.invoked = Append(@, outcome),
                       !.result = [kind |-> "threw", error |-> outcome]]

InitNotion ==
    /\ NoWorld
    /\ scoreHistory = EmptyHistory
    /\ histLog = <<>>
    /\ pc = "idle"
    /\ ret = NoCall

\* notionRequest(fn, retries) is called.
CallNotionRequest(retries) ==
    /\ pc = "idle"
    /\ ret' = LoopTest(EnterLoop(retries))
    /\ pc' = IF ret'.result = NoCall THEN "try" ELSE "done"
    /\ UNCHANGED <<scoreHistory, histLog, world>>

\* fn() settles, and with it one iteration of the loop.
InvokeFn(outcome) ==
    /\ pc = "try"
    /\ ret' = Iteration(ret, outcome)
    /\ pc' = IF ret'.result = NoCall THEN "try" ELSE "done"
    /\ UNCHANGED <<scoreHistory, histLog, world>>

\* The caller goes on.
ReturnNotionRequest ==
    /\ pc = "done"
    /\ ret' = NoCall
    /\ pc' = "idle"
    /\ UNCHANGED <<scoreHistory, histLog, world>>

NextNotion ==
    \/ \E retries \in RetriesArguments : CallNotionRequest(retries)
    \/ \E outcome \in FnOutcomes : InvokeFn(outcome)
    \/ ReturnNotionRequest

SpecNotion == InitNotion /\ [][NextNotion]_vars

\* Every invocation of fn and every sleep settles.
SpecNotionFair == SpecNotion /\ WF_vars(\E outcome \in FnOutcomes : InvokeFn(outcome))

\* A rate-limit error as the claim words it.
IsRateLimitedBoth(error) == error.code = "rate_limited" \/ error.status = 429

\* All invocations so far but the last were rate-limit errors.
EarlierAllRateLimited(frame) ==
    \A k \in 1..(Len(frame.invoked) - 1) :
        frame.invoked[k].kind = "rejected" /\ IsRateLimitedBoth(frame.invoked[k])

\* What holds of a notionRequest call at every moment.
NotionRequestSafe ==
    ret.op = "notionRequest"
        => /\ Len(ret.invoked) <= ret.retries
           /\ EarlierAllRateLimited(ret)
           /\ \A k \in 1..Len(ret.slept) : ret.slept[k] = (2 ^ (k - 1)) * 1000
           /\ Len(ret.slept)
                  = Cardinality({k \in 1..Len(ret.invoked) :
                                    ret.invoked[k].kind = "rejected"
                                        /\ IsRateLimitedBoth(ret.invoked[k])})
           /\ pc = "try" => ret.result = NoCall /\ Len(ret.slept) = Len(ret.invoked)
           /\ (pc = "done" /\ ret.result.kind = "returned")
                  => /\ ret.invoked # <<>>
                     /\ ret.invoked[Len(ret.invoked)] = Resolved(ret.result.value)
           /\ (pc = "done" /\ ret.result.kind = "threw")
                  => IF ret.result.error = MaxRetriesExceeded
                     THEN /\ Len(ret.invoked) = ret.retries
                          /\ Len(ret.slept) = ret.retries
                     ELSE /\ ret.invoked # <<>>
                          /\ ret.invoked[Len(ret.invoked)] = ret.result.error
                          /\ ~IsRateLimitedBoth(ret.result.error)

\* C24: notionRequest always terminates after invoking the wrapped call at
\* most retries times: it invokes it again only after a rate-limit error
\* (code 'rate_limited' or status 429) and a wait of 2^i seconds, rethrows
\* any other error at once, returns the first successful result, and throws
\* 'Max retries exceeded' after retries consecutive rate-limit failures.
C24_NotionRequestTerminates ==
    /\ []NotionRequestSafe
    /\ (pc = "try") ~> (pc = "done")

\* With the default 3: three rate-limit errors, of both kinds, waits of 1, 2
\* and 4 seconds, then 'Max retries exceeded'.
C24_Witness ==
    /\ pc = "done"
    /\ ret.op = "notionRequest"
    /\ ret.retries = 3
    /\ ret.invoked = <<Rejected("rate_limited", 0), Rejected("other", 429), Rejected("rate_limited", 429)>>
    /\ ret.slept = <<1000, 2000, 4000>>
    /\ ret.result = [kind |-> "threw", error |-> MaxRetriesExceeded]

(***************************************************************************)
(* shouldCheck with the time of day (src/trend-monitor.js:2302-2316)       *)
(***************************************************************************)
\* Instants are counted in equal parts of a UTC day, from midnight of day 0.
UnitsPerDay == 4
MaxElapsedDays == 31

\* new Date().toISOString().split('T')[0]: the UTC date of an instant, which
\* is what updateMonitor stores as last_check
DateOf(instant) == instant \div UnitsPerDay

\* new Date(monitor.lastCheck): midnight UTC of the stored date
MidnightOf(date) == date * UnitsPerDay

\* Fault variant: every interval but 'month' is checked daily.
shouldCheckAtNoWeek(monitor, now) ==
    IF monitor.lastCheck = None THEN TRUE
    ELSE IF monitor.interval = "month"
    THEN now - MidnightOf(Val(monitor.lastCheck)) >= 30 * UnitsPerDay
    ELSE now - MidnightOf(Val(monitor.lastCheck)) >= 1 * UnitsPerDay

\* shouldCheck(monitor) at the instant now: daysDiff >= n, both sides
\* multiplied by the parts of a day.
shouldCheckAt(monitor, now) ==
    IF monitor.lastCheck = None THEN TRUE
    ELSE IF monitor.interval = "week"
    THEN now - MidnightOf(Val(monitor.lastCheck)) >= 7 * UnitsPerDay
    ELSE IF monitor.interval = "month"
    THEN now - MidnightOf(Val(monitor.lastCheck)) >= 30 * UnitsPerDay
    ELSE now - MidnightOf(Val(monitor.lastCheck)) >= 1 * UnitsPerDay

\* The interval property of a page: empty, or one of the select options.
IntervalOptions == {None, Some("day"), Some("week"), Some("month")}

\* The instant of the monitor's last check, None when it was never checked.
CheckInstants == {None} \cup {Some(t) : t \in 0..(2 * UnitsPerDay - 1)}

\* The page of a monitor last checked at checkedAt.
CheckedPage(interval, checkedAt) ==
    Page("m1", None, interval, IF checkedAt = None THEN None ELSE Some(DateOf(Val(checkedAt))), None)

InitDue ==
    /\ NoWorld
    /\ scoreHistory = EmptyHistory
    /\ histLog = <<>>
    /\ pc = "idle"
    /\ ret = NoCall

\* monitors.filter(shouldCheck) on one monitor, elapsed parts of a day after
\* its last check.
CallShouldCheck(interval, checkedAt, elapsed) ==
    /\ pc = "idle"
    /\ ret' = [op |-> "shouldCheck", interval |-> interval, checkedAt |-> checkedAt,
               now |-> IF checkedAt = None THEN elapsed ELSE Val(checkedAt) + elapsed,
               monitor |-> MonitorOf("p1", CheckedPage(interval, checkedAt)),
               value |-> shouldCheckAt(MonitorOf("p1", CheckedPage(interval, checkedAt)),
                                       IF checkedAt = None THEN elapsed
                                       ELSE Val(checkedAt) + elapsed)]
    /\ pc' = "returned"
    /\ UNCHANGED <<scoreHistory, histLog, world>>

ReturnShouldCheck ==
    /\ pc = "returned"
    /\ ret' = NoCall
    /\ pc' = "idle"
    /\ UNCHANGED <<scoreHistory, histLog, world>>

NextDue ==
    \/ \E interval \in IntervalOptions, checkedAt \in CheckInstants,
          elapsed \in 0..(MaxElapsedDays * UnitsPerDay) :
          CallShouldCheck(interval, checkedAt, elapsed)
    \/ ReturnShouldCheck

SpecDue == InitDue /\ [][NextDue]_vars

\* The days of a check interval as the claim names them.
DaysOfInterval(interval) ==
    IF interval = "week" THEN 7 ELSE IF interval = "month" THEN 30 ELSE 1

\* C25 as stated: a monitor is selected if and only if it has never been
\* checked, or the time elapsed since its last check is at least 7 days for
\* a weekly, 30 days for a monthly and 1 day for a daily monitor.
C25_DueByElapsedTime ==
    (ret.op = "shouldCheck" /\ ret.interval # None)
        => (ret.value <=> (\/ ret.checkedAt = None
                           \/ ret.now - Val(ret.checkedAt)
                                  >= DaysOfInterval(Val(ret.interval)) * UnitsPerDay))

\* C25, amended: a monitor is selected if and only if it has no stored
\* last-check date, or the time elapsed since 00:00 UTC of the stored date of
\* its last check is at least 7 days for interval 'week' or an unset
\* interval, 30 days for 'month', and 1 day for any other interval.
C25_DueByElapsedSinceMidnight ==
    ret.op = "shouldCheck"
        => (ret.value <=> (\/ ret.checkedAt = None
                           \/ ret.now - MidnightOf(DateOf(Val(ret.checkedAt)))
                                  >= (IF ret.interval = None THEN 7
                                      ELSE DaysOfInterval(Val(ret.interval))) * UnitsPerDay))

\* A daily monitor checked in the last part of day 0 is selected two parts
\* of a day later, on day 1.
C25_Witness ==
    /\ ret.op = "shouldCheck"
    /\ ret.interval = Some("day")
    /\ ret.checkedAt = Some(UnitsPerDay - 1)
    /\ ret.now = UnitsPerDay + 1
    /\ ret.monitor.lastCheck = Some(0)
    /\ ret.value

(***************************************************************************)
(* The loop of main() and its exit (src/trend-monitor.js:2386-2438)        *)
(***************************************************************************)
\* One iteration took the first monitor still due, whether it threw or not,
\* and counted the failure if it threw.
IterationInOrder ==
    (pc = "loop" /\ pc' = "loop")
        => /\ run.monitorsToCheck # <<>>
           /\ ret'.op = "monitor"
           /\ ret'.monitor = Head(run.monitorsToCheck)
           /\ run'.monitorsToCheck = Tail(run.monitorsToCheck)
           /\ run'.errors = IF ret'.threw THEN run.errors + 1 ELSE run.errors
           /\ ret'.threw => run'.analyzed = run.analyzed /\ run'.alerts = run.alerts

\* C26 as stated: due monitors are processed one at a time in list order, an
\* exception while processing one does not stop the run (every later due
\* monitor is still processed, the failure is counted), and the process
\* exits with code 1 if and only if at least one monitor's processing threw.
C26_ExitOneIffMonitorThrew ==
    [][/\ IterationInOrder
       /\ pc' = "exited"
              => /\ run'.exitCode \in {Some(0), Some(1)}
                 /\ run'.exitCode = Some(1) <=> run'.errors > 0]_vars

\* C26, amended: as stated for a run that reaches the loop, which ends only
\* when no due monitor is left and then exits with code 1 if and only if at
\* least one monitor's processing threw; a run whose connection test or
\* monitor query throws exits with code 1 without processing any monitor.
C26_ExitOneIffThrewOrFatal ==
    [][/\ IterationInOrder
       /\ (pc = "loop" /\ pc' = "exited")
              => /\ run.monitorsToCheck = <<>>
                 /\ run'.errors = run.errors
                 /\ run'.exitCode \in {Some(0), Some(1)}
                 /\ run'.exitCode = Some(1) <=> run'.errors > 0
       /\ (pc = "started" /\ pc' = "exited")
              => /\ run'.exitCode = Some(1)
                 /\ run'.errors = 0
                 /\ run'.analyzed = 0]_vars

\* The first of two due monitors threw, the second was processed after it
\* and its page updated; one error is counted.
C26_Witness ==
    /\ pc = "loop"
    /\ Len(run.monitors) = 2
    /\ run.monitorsToCheck = <<>>
    /\ run.errors = 1
    /\ run.analyzed = 1
    /\ ret.op = "monitor"
    /\ ~ret.threw
    /\ ret.monitor = run.monitors[2]

(***************************************************************************)
(* The history over scoring passes (src/trend-monitor.js:119-131,          *)
(* 1983-1994, 517-520)                                                     *)
(***************************************************************************)
\* A pass from any history within range: the entry of one monitor is any
\* integer of 0..100 or absent, the entry of the other is absent or at an
\* end of the range.  A pass leaves a history of this kind, so the passes of
\* a sequence are all among these.
EntriesInRange == {None} \cup {Some(n) : n \in 0..100}
EntriesAtEnds == {None, Some(0), Some(100)}

HistoriesInRange ==
    {h \in [MonitorIds -> EntriesInRange] : \E m \in MonitorIds : h[m] \in EntriesAtEnds}

\* Every source saturated with articles dated six days ahead, each of
\* recency weight 2^(6/3) = 4, all of them with a positive title.
SaturatedAhead ==
    [googleTrends  |-> TrendsFuture,
     googleNewsRss |-> List(<<TermResult(30, Some(12000), <<Article(PositiveTitle)>>)>>),
     newsData      |-> List(<<TermResult(50, Some(20000), <<Article(PositiveTitle)>>)>>),
     serpResults   |-> List(<<TermResult(30, Some(12000), <<Article(PositiveTitle)>>)>>),
     reddit        |-> List(<<TermResult(20, Some(8000), <<Article(PositiveTitle)>>)>>),
     hackerNews    |-> List(<<TermResult(20, Some(8000), <<Article(PositiveTitle)>>)>>),
     additionalRss |-> AdditionalRss(<<Article(PositiveTitle), Article(PositiveTitle)>>)]

\* Source results for these passes: nothing at all, everything present, the
\* empty, partial, NaN, future-dated and saturated results.
HistoryInputs == {AllAbsent, PresentSource, SaturatedAhead} \cup VariantInputs

InitHistory ==
    /\ NoWorld
    /\ scoreHistory \in HistoriesInRange
    /\ histLog = <<>>
    /\ pc = "idle"
    /\ ret = NoCall

NextHistory == \E m \in MonitorIds, in \in HistoryInputs : ScorePass(m, in)

SpecHistory == InitHistory /\ [][NextHistory]_vars

\* C27: if every history value seeded from persistence is an integer in
\* 0..100, then after any sequence of scoring passes over any monitors every
\* stored history value is still an integer in 0..100: a pass from a history
\* within range stores the integer it returns as smoothedScore, within
\* range, and leaves the other entries alone.
C27_HistoryStaysInRange ==
    /\ \A m \in MonitorIds : scoreHistory[m] \in EntriesInRange
    /\ ret.op = "score"
           => /\ ret.pass.trendData.rawScore \in 0..100
              /\ scoreHistory[ret.monitorId] = Some(ret.pass.trendData.smoothedScore)
              /\ \A o \in MonitorIds \ {ret.monitorId} : scoreHistory[o] = ret.before[o]

\* A pass over a monitor whose entry was 0, with every source saturated, has
\* stored a smoothed score strictly inside the range.
C27_Witness ==
    /\ ret.op = "score"
    /\ ret.before[ret.monitorId] = Some(0)
    /\ ret.pass.trendData.rawScore >= 80
    /\ scoreHistory[ret.monitorId] # None
    /\ Val(scoreHistory[ret.monitorId]) \in 1..99
    /\ Val(scoreHistory[ret.monitorId]) < ret.pass.trendData.rawScore

(***************************************************************************)
(* The same raw score on every pass (src/trend-monitor.js:119-131)         *)
(***************************************************************************)
\* The raw scores a monitor may keep receiving, and what its history entry
\* may hold when the passes begin.
SteadyScores == 0..100

\* One monitor is given one raw score for good; run keeps both.
InitSteady ==
    /\ pages = <<>>
    /\ signals = <<>>
    /\ env = [DRY_RUN |-> FALSE, SIGNALS_DB |-> FALSE]
    /\ today = 0
    /\ budget = [runs |-> 0, faults |-> 0]
    /\ lastPass = <<>>
    /\ \E m \in MonitorIds, r \in SteadyScores : run = [monitorId |-> m, rawScore |-> r]
    /\ \E m \in MonitorIds, e \in EntriesInRange : scoreHistory = [EmptyHistory EXCEPT ![m] = e]
    /\ histLog = <<>>
    /\ pc = "idle"
    /\ ret = NoCall

\* The next pass smooths the same raw score for the same monitor.
CallSteady ==
    /\ pc = "idle"
    /\ ret' = [op |-> "applyEMASmoothing", monitorId |-> run.monitorId,
               newScore |-> run.rawScore, before |-> scoreHistory[run.monitorId],
               call |-> applyEMASmoothing([map |-> scoreHistory, log |-> <<>>],
                                          run.rawScore, run.monitorId)]
    /\ scoreHistory' = ret'.call.store.map
    /\ histLog' = ret'.call.store.log
    /\ pc' = "returned"
    /\ UNCHANGED world

ReturnSteady ==
    /\ pc = "returned"
    /\ pc' = "idle"
    /\ ret' = NoCall
    /\ histLog' = <<>>
    /\ UNCHANGED <<scoreHistory, world>>

NextSteady == CallSteady \/ ReturnSteady

SpecSteady == InitSteady /\ [][NextSteady]_vars

\* The monitor is scored on every scheduled run, so a pass that can begin
\* does begin and a pass that has begun returns.
SpecSteadyFair == SpecSteady /\ WF_vars(CallSteady) /\ WF_vars(ReturnSteady)

\* The entry of the monitor lies between a and b, ends included.
Between(x, a, b) == (a <= x /\ x <= b) \/ (b <= x /\ x <= a)

SteadyEntry == scoreHistory[run.monitorId]

\* The smoothed score is within 1 of the raw score.
WithinOne == SteadyEntry # None /\ Abs(Val(SteadyEntry) - run.rawScore) <= 1

\* A pass moves the entry no further from the raw score and not across it.
MovesToward ==
    SteadyEntry # None
        => /\ SteadyEntry' # None
           /\ Between(Val(SteadyEntry'), Val(SteadyEntry), run.rawScore)

\* An entry within 1 of the raw score is left as it is.
StaysWithinOne == WithinOne => SteadyEntry' = SteadyEntry

SameUrl(a, b) == normalizeUrl(a.url) # <<>> /\ normalizeUrl(a.url) = normalizeUrl(b.url)

\* Two returned articles have a title similarity of the threshold or more.
SimilarTitles(a, b, similarityThreshold) ==
    FLe(similarityThreshold, calculateTitleSimilarity(a.title, b.title))

====
